---------------------------- MODULE Spec2Model ----------------------------
(***************************************************************************)
(* State machine of the DOD agent simulation: the GameState arrays of      *)
(* include/Components.h, the four systems of include/Systems.h            *)
(* (PerceptionSystem, UtilitySystem, KineticSystem, NeedsSystem), the      *)
(* ChaosMonkey and SystemValidator of include/Diagnostics.h and the frame  *)
(* loop of src/main.cpp.                                                   *)
(*                                                                         *)
(* Numbers.  The program computes in IEEE float.  The model computes in    *)
(* fixed point and rounds every product and quotient to the nearest unit:  *)
(*   positions           PosOne  units per world unit   (0.1)              *)
(*   velocities          VelOne  units per world unit/s (0.01)             *)
(*   needs and utilities NeedOne units per 1.0          (0.0001)           *)
(*   delta_time          DtOne   units per second       (milliseconds)     *)
(*   angles              whole degrees (180 for M_PI)                      *)
(***************************************************************************)
EXTENDS Integers, Sequences, FiniteSets, TLC

\* ------------------------------------------------------------------------
\* Bounds of the model
\* ------------------------------------------------------------------------
\* Entities of an ordinary scenario (main.cpp runs ENTITY_COUNT = 1000).
NumEntities == 2
\* Frames of one run (main.cpp runs SIMULATION_FRAMES = 100).
MaxFrames == 2
\* Corruptions the ChaosMonkey makes in one run.
MaxChaos == 1

\* ------------------------------------------------------------------------
\* Fixed-point scales
\* ------------------------------------------------------------------------
PosOne == 10
VelOne == 100
NeedOne == 10000
DtOne == 1000
PI_DEG == 180

\* ------------------------------------------------------------------------
\* Program constants
\* ------------------------------------------------------------------------
INVALID_ENTITY == -1           \* stands for UINT32_MAX
GRID_SIZE == 100
CELL_SIZE == 10
MAX_SPEED == 5
ACCELERATION == 2
WORLD_MAX == 1000
DEAD_ZONE_INV == 10            \* the dead zone 0.1f is 1 / DEAD_ZONE_INV
CROWD_THRESHOLD == 3           \* visible_entity_count > 3 lowers safety
DELTA_TIME == 16               \* 0.016f, in DtOne units

ActionTypes == {"IDLE", "MOVE_TO_TARGET", "EAT", "SLEEP", "FLEE", "ATTACK", "EXPLORE"}

\* ------------------------------------------------------------------------
\* Arithmetic
\* ------------------------------------------------------------------------
Abs(a) == IF a < 0 THEN -a ELSE a

Max(a, b) == IF a < b THEN b ELSE a

Min(a, b) == IF b < a THEN b ELSE a

\* a / b rounded to the nearest integer (b > 0), halves away from zero:
\* the rounding of a float product or quotient, at the model's resolution.
RDiv(a, b) == IF a >= 0 THEN (2 * a + b) \div (2 * b) ELSE -((2 * (-a) + b) \div (2 * b))

\* C++ integer conversion and division: truncation toward zero (b > 0).
TruncDiv(a, b) == IF a >= 0 THEN a \div b ELSE -((-a) \div b)

\* C++ operator % on int: the remainder has the sign of the dividend.
CMod(a, b) == a - b * TruncDiv(a, b)

SqrtIter[n \in Nat, x \in Nat] ==
    LET y == (x + n \div x) \div 2
    IN  IF y >= x THEN x ELSE SqrtIter[n, y]

\* floor of the square root
FloorSqrt(n) == IF n <= 0 THEN 0 ELSE SqrtIter[n, n]

\* std::sqrt, rounded to the nearest unit
Sqrt(n) ==
    LET r == FloorSqrt(n)
    IN  IF n - r * r > r THEN r + 1 ELSE r

\* atan of b / a in degrees for 0 <= b <= a, a > 0:
\* 45 t + 16 t (1 - t), within one degree of atan(t) on [0, 1].
AtanDegOctant(b, a) ==
    LET k  == (a \div 4000) + 1
        aa == a \div k
        bb == b \div k
    IN  IF aa = 0 THEN 0
        ELSE RDiv(45 * bb * aa + 16 * bb * (aa - bb), aa * aa)

\* std::atan2(dy, dx) in degrees, in (-180, 180]; atan2(0, 0) = 0.
Atan2Deg(dy, dx) ==
    LET ax   == Abs(dx)
        ay   == Abs(dy)
        base == IF ax = 0 /\ ay = 0 THEN 0
                ELSE IF ay <= ax THEN AtanDegOctant(ay, ax)
                ELSE 90 - AtanDegOctant(ax, ay)
    IN  IF dx >= 0
        THEN (IF dy >= 0 THEN base ELSE -base)
        ELSE (IF dy >= 0 THEN PI_DEG - base ELSE base - PI_DEG)

\* std::abs(angle_to_target - obs_orientation) normalised by the two while
\* loops of PerceptionSystem::Update.
RECURSIVE NormalizeAngle(_)
NormalizeAngle(a) ==
    IF a > PI_DEG THEN NormalizeAngle(a - 2 * PI_DEG)
    ELSE IF a < -PI_DEG THEN NormalizeAngle(a + 2 * PI_DEG)
    ELSE a

\* ------------------------------------------------------------------------
\* State
\* ------------------------------------------------------------------------
VARIABLES
    entity_count,           \* GameState::entity_count
    position_x, position_y, \* TransformComponents
    velocity_x, velocity_y,
    orientation,
    view_range, view_angle, \* PerceptionComponents
    visible_entity_count,
    hunger, energy, safety, curiosity,   \* NeedsComponents
    current_action, action_utility,      \* ActionComponents
    target_entity, target_x, target_y,
    health, max_health, armor_type, is_alive,  \* HealthComponents
    spatial_grid,           \* SpatialGrid::cells, the non-empty buckets only
    visible_entities,       \* StimulusBuffer::visible_entities
    delta_time,             \* DELTA_TIME of main, or any other step
    frame,                  \* main's loop counter
    frame_number,           \* StateLogger::frame_number
    pc,                     \* the statement of main that runs next
    cursor,                 \* the loop index of the system that is running
    chaos_count,            \* corruptions the ChaosMonkey has made
    shuffle                 \* the bookkeeping of a system run in another order

transforms == <<position_x, position_y, velocity_x, velocity_y, orientation>>

perception == <<view_range, view_angle, visible_entity_count>>

needs == <<hunger, energy, safety, curiosity>>

actions == <<current_action, action_utility, target_entity, target_x, target_y>>

healths == <<health, max_health, armor_type, is_alive>>

control == <<entity_count, delta_time, frame, frame_number, pc, cursor, chaos_count>>

vars == <<transforms, perception, needs, actions, healths, spatial_grid,
          visible_entities, control, shuffle>>

\* No system is being run in another order.
NoShuffle == [phase |-> "off"]

Entities == 0 .. (entity_count - 1)

\* ------------------------------------------------------------------------
\* Initial states: InitializeEntities draws positions in [0, 1000), needs in
\* [0, 1) and orientations in [0, 2 pi) from a seeded generator.  The model
\* draws each entity from a few profiles near the corner (1000, 0) of the
\* world, and adds one crowd of entities standing on one point.
\* ------------------------------------------------------------------------
Profile(px, py, o, h, e, s, c) ==
    [x |-> px, y |-> py, orientation |-> o,
     hunger |-> (h * NeedOne) \div 100, energy |-> (e * NeedOne) \div 100,
     safety |-> (s * NeedOne) \div 100, curiosity |-> (c * NeedOne) \div 100]

Profiles ==
    [tie      |-> Profile(9900,  50,   0, 100,   0, 100,   0),
     hunter   |-> Profile(9800,  50,   0,  80, 100, 100,   0),
     explorer |-> Profile(9990,  50, 180,   0, 100, 100, 100),
     idle     |-> Profile(9900, 120,  90,   0, 100, 100,   0),
     fleer    |-> Profile(9850,  50,   0,   0, 100,   0,   0),
     crowd    |-> Profile(9900,  50,   0,  90,  50,   1,   0),
     corrupt  |-> Profile(9900, 120,  90, 101, 100, 100,   0)]

\* The profile "corrupt" has hunger 1.01, which InitializeEntities never
\* draws: it is a snapshot the validator rejects.
OrdinaryProfiles == {"tie", "hunter", "explorer", "idle", "fleer"}

\* One more entity than can be seen without lowering safety, plus the observer.
CrowdSize == CROWD_THRESHOLD + 2

Scenarios ==
    [0 .. (NumEntities - 1) -> OrdinaryProfiles]
        \cup {[e \in 0 .. (CrowdSize - 1) |-> "crowd"]}

\* Steps the model runs: main's DELTA_TIME and two coarser ones.
DeltaTimes == {DELTA_TIME, 1000, 20000}

\* GameState::Initialize followed by the loop of InitializeEntities.
InitializeEntities(scenario) ==
    LET ids == DOMAIN scenario
        p(i) == Profiles[scenario[i]]
    IN  /\ entity_count = Cardinality(ids)
        /\ position_x = [i \in ids |-> p(i).x]
        /\ position_y = [i \in ids |-> p(i).y]
        /\ velocity_x = [i \in ids |-> 0]
        /\ velocity_y = [i \in ids |-> 0]
        /\ orientation = [i \in ids |-> p(i).orientation]
        /\ view_range = [i \in ids |-> (50 + (i % 50)) * PosOne]
        /\ view_angle = [i \in ids |-> PI_DEG \div 2]
        /\ visible_entity_count = [i \in ids |-> 0]
        /\ hunger = [i \in ids |-> p(i).hunger]
        /\ energy = [i \in ids |-> p(i).energy]
        /\ safety = [i \in ids |-> p(i).safety]
        /\ curiosity = [i \in ids |-> p(i).curiosity]
        /\ current_action = [i \in ids |-> "IDLE"]
        /\ action_utility = [i \in ids |-> 0]
        /\ target_entity = [i \in ids |-> INVALID_ENTITY]
        /\ target_x = [i \in ids |-> 0]
        /\ target_y = [i \in ids |-> 0]
        /\ health = [i \in ids |-> 100]
        /\ max_health = [i \in ids |-> 100]
        /\ armor_type = [i \in ids |-> i % 3]
        /\ is_alive = [i \in ids |-> TRUE]
        /\ spatial_grid = [c \in {} |-> << >>]
        /\ visible_entities = [i \in ids |-> << >>]

Init ==
    /\ \E scenario \in Scenarios : InitializeEntities(scenario)
    /\ delta_time \in DeltaTimes
    /\ frame = 0
    /\ frame_number = 0
    /\ pc = "validate_initial"
    /\ cursor = 0
    /\ chaos_count = 0
    /\ shuffle = NoShuffle

\* ------------------------------------------------------------------------
\* SpatialGrid (Components.h)
\* ------------------------------------------------------------------------
\* The grid of the frame before, kept where Clear would empty it.
StaleGrid == spatial_grid

\* SpatialGrid::Clear: every bucket empty.
EmptyGrid == [c \in {} |-> << >>]

\* cells[c[1]][c[2]] of grid g
Bucket(g, c) == IF c \in DOMAIN g THEN g[c] ELSE << >>

\* static_cast<int>(coord / CELL_SIZE)
CellCoord(coord) == TruncDiv(coord, CELL_SIZE * PosOne)

InGrid(c) == c[1] >= 0 /\ c[1] < GRID_SIZE /\ c[2] >= 0 /\ c[2] < GRID_SIZE

\* The cell SpatialGrid::Insert stores (x, y) in.
InsertCell(x, y) == <<CMod(CellCoord(x), GRID_SIZE), CMod(CellCoord(y), GRID_SIZE)>>

\* Insert with push_front in place of push_back.
InsertFront(g, id, x, y) ==
    LET c == InsertCell(x, y)
    IN  IF InGrid(c)
        THEN [d \in (DOMAIN g) \cup {c} |-> IF d = c THEN <<id>> \o Bucket(g, c) ELSE g[d]]
        ELSE g

\* SpatialGrid::Insert
Insert(g, id, x, y) ==
    LET c == InsertCell(x, y)
    IN  IF InGrid(c)
        THEN [d \in (DOMAIN g) \cup {c} |-> IF d = c THEN Append(Bucket(g, c), id) ELSE g[d]]
        ELSE g

\* Step 1 without its "if (state.health.is_alive[i])".
InsertedAll(i) == TRUE

\* Step 1 of PerceptionSystem::Update: which entities are inserted.
Inserted(i) == is_alive[i]

\* Step 1 of PerceptionSystem::Update: the grid after the entities below n
\* were offered to it, in ascending order.
RECURSIVE BuildGrid(_)
BuildGrid(n) ==
    IF n = 0 THEN EmptyGrid
    ELSE IF Inserted(n - 1)
         THEN Insert(BuildGrid(n - 1), n - 1, position_x[n - 1], position_y[n - 1])
         ELSE BuildGrid(n - 1)

\* ------------------------------------------------------------------------
\* PerceptionSystem (Systems.h)
\* ------------------------------------------------------------------------
\* The 3x3 loops without the modulo: a cell outside the grid is skipped.
CheckCellsNoWrap(x, y) ==
    LET gx == CellCoord(x)
        gy == CellCoord(y)
        all == [k \in 1 .. 9 |-> <<gx + ((k - 1) \div 3) - 1, gy + ((k - 1) % 3) - 1>>]
    IN  SelectSeq(all, InGrid)

\* The loops started at 0: only the observer's cell and the ones after it.
CheckCellsForward(x, y) ==
    LET gx == CellCoord(x)
        gy == CellCoord(y)
        all == [k \in 1 .. 4 |-> <<CMod(gx + ((k - 1) \div 2), GRID_SIZE),
                                   CMod(gy + ((k - 1) % 2), GRID_SIZE)>>]
    IN  SelectSeq(all, InGrid)

\* The cells the 3x3 loops visit for an observer at (x, y), in loop order
\* (dx outer, dy inner), the out-of-range ones skipped.
CheckCells(x, y) ==
    LET gx == CellCoord(x)
        gy == CellCoord(y)
        offsets == << <<-1, -1>>, <<-1, 0>>, <<-1, 1>>,
                      << 0, -1>>, << 0, 0>>, << 0, 1>>,
                      << 1, -1>>, << 1, 0>>, << 1, 1>> >>
        all == [k \in 1 .. 9 |-> <<CMod(gx + offsets[k][1], GRID_SIZE),
                                   CMod(gy + offsets[k][2], GRID_SIZE)>>]
    IN  SelectSeq(all, InGrid)

RECURSIVE Candidates(_, _)
\* The entities of the buckets of cells, in order.
Candidates(g, cells) ==
    IF cells = << >> THEN << >>
    ELSE Bucket(g, Head(cells)) \o Candidates(g, Tail(cells))

\* The distance check on a world that wraps at its edges.
InRangeWrapped(observer, target) ==
    LET ax == Abs(position_x[target] - position_x[observer])
        ay == Abs(position_y[target] - position_y[observer])
        dx_dist == Min(ax, WORLD_MAX * PosOne - ax)
        dy_dist == Min(ay, WORLD_MAX * PosOne - ay)
    IN  dx_dist * dx_dist + dy_dist * dy_dist <= view_range[observer] * view_range[observer]

\* distance_sq <= view_range * view_range
InRange(observer, target) ==
    LET dx_dist == position_x[target] - position_x[observer]
        dy_dist == position_y[target] - position_y[observer]
    IN  dx_dist * dx_dist + dy_dist * dy_dist <= view_range[observer] * view_range[observer]

\* std::abs(angle_diff) <= view_angle / 2
InFieldOfView(observer, target) ==
    LET dx_dist == position_x[target] - position_x[observer]
        dy_dist == position_y[target] - position_y[observer]
        angle_to_target == Atan2Deg(dy_dist, dx_dist)
        angle_diff == NormalizeAngle(Abs(angle_to_target - orientation[observer]))
    IN  2 * Abs(angle_diff) <= view_angle[observer]

\* The filters of the innermost loop.
Sees(observer, target) ==
    /\ target # observer
    /\ is_alive[target]
    /\ InRange(observer, target)
    /\ InFieldOfView(observer, target)

\* What Step 3 pushes to visible_entities[observer], read from grid g.
VisibleSet(g, observer) ==
    LET Test(t) == Sees(observer, t)
    IN  SelectSeq(Candidates(g, CheckCells(position_x[observer], position_y[observer])), Test)

\* ------------------------------------------------------------------------
\* UtilitySystem (Systems.h)
\* ------------------------------------------------------------------------
\* a float product of two values in NeedOne units
FMul(a, b) == RDiv(a * b, NeedOne)

QuadraticCurve(x) == FMul(x, x)

CalculateEatUtility(id) == FMul(hunger[id], QuadraticCurve(hunger[id]))

CalculateSleepUtility(id) ==
    LET fatigue == NeedOne - energy[id]
    IN  FMul(fatigue, QuadraticCurve(fatigue))

CalculateFleeUtility(id) ==
    LET danger == NeedOne - safety[id]
    IN  RDiv(FMul(danger, QuadraticCurve(danger)) * 3, 2)

CalculateExploreUtility(id) == FMul(curiosity[id], energy[id])

\* The attack utility without its test of the visible set.
CalculateAttackUtilityBlind(id) == RDiv(FMul(hunger[id], energy[id]) * 8, 10)

CalculateAttackUtility(id) ==
    IF visible_entities[id] = << >> THEN 0
    ELSE RDiv(FMul(hunger[id], energy[id]) * 8, 10)

\* The comparison written "utility >= max_utility".
ConsiderLatest(best, utility, action) ==
    IF utility >= best.max_utility
    THEN [max_utility |-> utility, best_action |-> action]
    ELSE best

\* The comparison without its "max_utility = utility".
ConsiderStale(best, utility, action) ==
    IF utility > best.max_utility
    THEN [max_utility |-> best.max_utility, best_action |-> action]
    ELSE best

\* One "if (utility > max_utility)" of UtilitySystem::Update.
Consider(best, utility, action) ==
    IF utility > best.max_utility
    THEN [max_utility |-> utility, best_action |-> action]
    ELSE best

\* The comparisons started from MOVE_TO_TARGET in place of IDLE.
SelectActionFromMove(eat, sleep, flee, explore, attack) ==
    Consider(Consider(Consider(Consider(Consider(
        [max_utility |-> 0, best_action |-> "MOVE_TO_TARGET"],
        eat, "EAT"), sleep, "SLEEP"), flee, "FLEE"), explore, "EXPLORE"), attack, "ATTACK")

\* The five comparisons of UtilitySystem::Update, in their order.
SelectAction(eat, sleep, flee, explore, attack) ==
    Consider(Consider(Consider(Consider(Consider(
        [max_utility |-> 0, best_action |-> "IDLE"],
        eat, "EAT"), sleep, "SLEEP"), flee, "FLEE"), explore, "EXPLORE"), attack, "ATTACK")

Decision(id) ==
    SelectAction(CalculateEatUtility(id), CalculateSleepUtility(id),
                 CalculateFleeUtility(id), CalculateExploreUtility(id),
                 CalculateAttackUtility(id))

\* The target taken from the action of the target entity, which
\* UtilitySystem itself writes.
AttackTargetChained(id, target) == <<target_x[target], target_y[target]>>

\* The attacker's own position copied in place of the target's.
AttackTargetSelf(id, target) == <<position_x[id], position_y[id]>>

\* The position UtilitySystem::Update copies into the target of an attacker.
AttackTarget(id, target) == <<position_x[target], position_y[target]>>

\* rand() % 20 - 10, in position units
ExploreOffset(r) == ((r % 20) - 10) * PosOne

\* The values of rand() the model draws.
RandDraws == {0, 99}

\* "if (!state.health.is_alive[i]) continue;" of UtilitySystem::Update
UtilitySkips(i) == ~is_alive[i]

\* ------------------------------------------------------------------------
\* KineticSystem (Systems.h)
\* ------------------------------------------------------------------------
\* "if (!state.health.is_alive[i]) continue;" of KineticSystem::Update
KineticSkips(i) == ~is_alive[i]

\* The dead zone 0.1f in position units.
DeadZone == PosOne \div DEAD_ZONE_INV

\* distance > 0.1f, for the squared distance d2
BeyondDeadZone(d2) == d2 > DeadZone * DeadZone

\* dir * ACCELERATION * delta_time, in velocity units; dir is d / distance
Accelerate(d, distance) ==
    RDiv(d * ACCELERATION * delta_time, distance * (DtOne \div VelOne))

\* dir * ACCELERATION * 1.5f * delta_time
AccelerateFlee(d, distance) ==
    RDiv(d * ACCELERATION * 3 * delta_time, distance * 2 * (DtOne \div VelOne))

\* The damping scaled by the step: the factor 1 - 0.1 * delta_time / 0.016,
\* not below 0.
DampTimeScaled(v) == RDiv(v * Max(0, 10 * DELTA_TIME - delta_time), 10 * DELTA_TIME)

\* velocity *= 0.9f
Damp(v) == RDiv(v * 9, 10)

\* The branch of KineticSystem::Update that moves toward the target.
SeeksTarget(action) == action \in {"MOVE_TO_TARGET", "ATTACK", "EXPLORE"}

\* The deceleration applied to an eating entity too.
DeceleratesEating(action) == action \in {"SLEEP", "IDLE", "EAT"}

\* The branch of KineticSystem::Update that damps the velocity.
Decelerates(action) == action \in {"SLEEP", "IDLE"}

\* The position of the threat as it was before KineticSystem moved any
\* entity of the frame.
ThreatPositionBefore(threat) == <<shuffle.before[1][threat], shuffle.before[2][threat]>>

\* threat_x and threat_y of the flee branch: the position the threat has
\* when the fleeing entity is processed.
ThreatPosition(threat) == <<position_x[threat], position_y[threat]>>

\* The action-based movement of KineticSystem::Update: velocity and
\* orientation of entity i after it.
ActionMovement(i) ==
    LET action == current_action[i]
        same == [vx |-> velocity_x[i], vy |-> velocity_y[i], o |-> orientation[i]]
    IN  IF SeeksTarget(action)
        THEN LET dx == target_x[i] - position_x[i]
                 dy == target_y[i] - position_y[i]
                 d2 == dx * dx + dy * dy
                 distance == Sqrt(d2)
             IN  IF BeyondDeadZone(d2)
                 THEN [vx |-> velocity_x[i] + Accelerate(dx, distance),
                       vy |-> velocity_y[i] + Accelerate(dy, distance),
                       o  |-> Atan2Deg(dy, dx)]
                 ELSE same
        ELSE IF action = "FLEE"
        THEN IF visible_entities[i] # << >>
             THEN LET threat == visible_entities[i][1]
                      from == ThreatPosition(threat)
                      dx == position_x[i] - from[1]
                      dy == position_y[i] - from[2]
                      d2 == dx * dx + dy * dy
                      distance == Sqrt(d2)
                  IN  IF BeyondDeadZone(d2)
                      THEN [vx |-> velocity_x[i] + AccelerateFlee(dx, distance),
                            vy |-> velocity_y[i] + AccelerateFlee(dy, distance),
                            o  |-> orientation[i]]
                      ELSE same
             ELSE same
        ELSE IF Decelerates(action)
        THEN [vx |-> Damp(velocity_x[i]), vy |-> Damp(velocity_y[i]), o |-> orientation[i]]
        ELSE same

\* Each component clamped to MAX_SPEED on its own.
ClampSpeedPerAxis(vx, vy) ==
    LET limit == MAX_SPEED * VelOne
    IN  <<Max(-limit, Min(limit, vx)), Max(-limit, Min(limit, vy))>>

\* "Clamp velocity to max speed": the velocity (vx, vy) after it.
ClampSpeed(vx, vy) ==
    LET speed_sq == vx * vx + vy * vy
        limit == MAX_SPEED * VelOne
    IN  IF speed_sq > limit * limit
        THEN LET speed == Sqrt(speed_sq)
             IN  <<RDiv(vx * limit, speed), RDiv(vy * limit, speed)>>
        ELSE <<vx, vy>>

\* position += velocity * delta_time
Integrate(p, v) == p + RDiv(v * delta_time * PosOne, VelOne * DtOne)

\* The clamp without its upper bound.
ClampWorldLow(p) == Max(0, p)

\* std::max(0.0f, std::min(1000.0f, p))
ClampWorld(p) == Max(0, Min(WORLD_MAX * PosOne, p))

\* One iteration of the loop of KineticSystem::Update: the transform of i.
KineticEntity(i) ==
    LET m == ActionMovement(i)
        v == ClampSpeed(m.vx, m.vy)
    IN  [vx |-> v[1], vy |-> v[2], o |-> m.o,
         x |-> ClampWorld(Integrate(position_x[i], v[1])),
         y |-> ClampWorld(Integrate(position_y[i], v[2]))]

\* ------------------------------------------------------------------------
\* NeedsSystem (Systems.h)
\* ------------------------------------------------------------------------
\* NeedsSystem::Update without its skip of dead entities.
NeedsSkipsNone(i) == FALSE

\* "if (!state.health.is_alive[i]) continue;" of NeedsSystem::Update
NeedsSkips(i) == ~is_alive[i]

\* rate * delta_time in need units, the rate given in thousandths per second
NeedRate(thousandths) == RDiv(thousandths * delta_time * (NeedOne \div DtOne), 1000)

\* The need left as computed, without std::min.
CapNeedMissing(v) == v

\* std::min(1.0f, v)
CapNeed(v) == Min(NeedOne, v)

\* std::max(0.0f, v)
FloorNeed(v) == Max(0, v)

\* The eater's reduction taken before the cap at 1.
NextHungerCapLast(i) ==
    IF current_action[i] = "EAT"
    THEN CapNeed(FloorNeed(hunger[i] + NeedRate(10) - NeedRate(150)))
    ELSE CapNeed(hunger[i] + NeedRate(10))

\* Hunger of i after one iteration of NeedsSystem::Update.
NextHunger(i) ==
    LET grown == CapNeed(hunger[i] + NeedRate(10))
    IN  IF current_action[i] = "EAT" THEN FloorNeed(grown - NeedRate(150)) ELSE grown

NextEnergy(i) ==
    IF current_action[i] = "SLEEP"
    THEN CapNeed(energy[i] + NeedRate(100))
    ELSE FloorNeed(energy[i] - NeedRate(20))

NextSafety(i) ==
    IF visible_entity_count[i] > CROWD_THRESHOLD
    THEN FloorNeed(safety[i] - NeedRate(50))
    ELSE CapNeed(safety[i] + NeedRate(30))

\* Curiosity after the draw r of rand().
NextCuriosity(i, r) ==
    FloorNeed(CapNeed(curiosity[i] + NeedRate((r % 100) - 50)))

\* ------------------------------------------------------------------------
\* Diagnostics.h
\* ------------------------------------------------------------------------
\* SystemValidator::ValidateState
ValidateState ==
    /\ Cardinality(DOMAIN position_x) = entity_count
    /\ Cardinality(DOMAIN view_range) = entity_count
    /\ Cardinality(DOMAIN hunger) = entity_count
    /\ Cardinality(DOMAIN current_action) = entity_count
    /\ \A i \in Entities : hunger[i] >= 0 /\ hunger[i] <= NeedOne

\* The values ChaosMonkey::MaybeCorrupt may write: dist(rng) * 1000.0f for a
\* position, dist(rng) for hunger and energy.
ChaosPositions == {<<9950, 50>>}

ChaosNeeds == {<<9999, 0>>}

\* ------------------------------------------------------------------------
\* main (main.cpp): the frame loop, one action per statement or loop
\* iteration
\* ------------------------------------------------------------------------
\* main with UtilitySystem::Update and KineticSystem::Update exchanged.
NextSystemSwapped(system) ==
    CASE system = "perception" -> "kinetic"
      [] system = "kinetic"    -> "utility"
      [] system = "utility"    -> "needs"
      [] system = "needs"      -> "chaos"

\* The system main calls after the given one, within a frame.
NextSystem(system) ==
    CASE system = "perception" -> "utility"
      [] system = "utility"    -> "kinetic"
      [] system = "kinetic"    -> "needs"
      [] system = "needs"      -> "chaos"

\* "++i" of a system's loop; the loop's end hands over to pc value next.
AdvanceCursor(next) ==
    IF cursor + 1 < entity_count
    THEN cursor' = cursor + 1 /\ pc' = pc
    ELSE cursor' = 0 /\ pc' = next

\* "Validate initial state" of main
ValidateInitial ==
    /\ pc = "validate_initial"
    /\ pc' = IF ValidateState THEN "perception_build" ELSE "exit_failure"
    /\ UNCHANGED <<transforms, perception, needs, actions, healths, spatial_grid,
                   visible_entities, entity_count, delta_time, frame, frame_number,
                   cursor, chaos_count>>
    /\ UNCHANGED shuffle

\* Steps 1 and 2 of PerceptionSystem::Update
BuildSpatialPartition ==
    /\ pc = "perception_build"
    /\ spatial_grid' = BuildGrid(entity_count)
    /\ visible_entities' = [i \in Entities |-> << >>]
    /\ pc' = "perception"
    /\ cursor' = 0
    /\ UNCHANGED <<transforms, perception, needs, actions, healths,
                   entity_count, delta_time, frame, frame_number, chaos_count>>
    /\ UNCHANGED shuffle

\* The body of the loop of Step 3 of PerceptionSystem::Update for one observer
PerceiveEntity(observer) ==
    IF ~is_alive[observer]
    THEN UNCHANGED <<visible_entities, visible_entity_count>>
    ELSE LET seen == VisibleSet(spatial_grid, observer)
         IN  /\ visible_entities' = [visible_entities EXCEPT ![observer] = seen]
             /\ visible_entity_count' =
                    [visible_entity_count EXCEPT ![observer] = Len(seen)]

\* One iteration of Step 3 of PerceptionSystem::Update
PerceiveStep ==
    /\ pc = "perception"
    /\ PerceiveEntity(cursor)
    /\ AdvanceCursor(NextSystem("perception"))
    /\ UNCHANGED <<transforms, view_range, view_angle, needs, actions, healths,
                   spatial_grid, entity_count, delta_time, frame, frame_number,
                   chaos_count>>
    /\ UNCHANGED shuffle

\* The body of the loop of UtilitySystem::Update for entity i, with the
\* draws rx and ry of rand() for an EXPLORE target.
DecideEntity(i, rx, ry) ==
    LET d == Decision(i)
    IN  IF UtilitySkips(i)
        THEN UNCHANGED actions
        ELSE /\ current_action' = [current_action EXCEPT ![i] = d.best_action]
             /\ action_utility' = [action_utility EXCEPT ![i] = d.max_utility]
             /\ IF d.best_action = "ATTACK" /\ visible_entities[i] # << >>
                THEN LET target == visible_entities[i][1]
                         at == AttackTarget(i, target)
                     IN  /\ target_entity' = [target_entity EXCEPT ![i] = target]
                         /\ target_x' = [target_x EXCEPT ![i] = at[1]]
                         /\ target_y' = [target_y EXCEPT ![i] = at[2]]
                ELSE IF d.best_action = "EXPLORE"
                THEN /\ target_x' = [target_x EXCEPT
                                        ![i] = position_x[i] + ExploreOffset(rx)]
                     /\ target_y' = [target_y EXCEPT
                                        ![i] = position_y[i] + ExploreOffset(ry)]
                     /\ UNCHANGED target_entity
                ELSE UNCHANGED <<target_entity, target_x, target_y>>

\* One iteration of the loop of UtilitySystem::Update
DecideStep ==
    /\ pc = "utility"
    /\ \E rx \in RandDraws, ry \in RandDraws : DecideEntity(cursor, rx, ry)
    /\ AdvanceCursor(NextSystem("utility"))
    /\ UNCHANGED <<transforms, perception, needs, healths, spatial_grid,
                   visible_entities, entity_count, delta_time, frame, frame_number,
                   chaos_count>>
    /\ UNCHANGED shuffle

\* One iteration of the loop of KineticSystem::Update
KineticStep ==
    /\ pc = "kinetic"
    /\ LET i == cursor
           k == KineticEntity(i)
       IN  IF KineticSkips(i)
           THEN UNCHANGED transforms
           ELSE /\ velocity_x' = [velocity_x EXCEPT ![i] = k.vx]
                /\ velocity_y' = [velocity_y EXCEPT ![i] = k.vy]
                /\ orientation' = [orientation EXCEPT ![i] = k.o]
                /\ position_x' = [position_x EXCEPT ![i] = k.x]
                /\ position_y' = [position_y EXCEPT ![i] = k.y]
    /\ AdvanceCursor(NextSystem("kinetic"))
    /\ UNCHANGED <<perception, needs, actions, healths, spatial_grid,
                   visible_entities, entity_count, delta_time, frame, frame_number,
                   chaos_count>>
    /\ UNCHANGED shuffle

\* The body of the loop of NeedsSystem::Update for entity i, with the draw
\* r of rand() for the curiosity.
NeedsEntity(i, r) ==
    IF NeedsSkips(i)
    THEN UNCHANGED needs
    ELSE /\ hunger' = [hunger EXCEPT ![i] = NextHunger(i)]
         /\ energy' = [energy EXCEPT ![i] = NextEnergy(i)]
         /\ safety' = [safety EXCEPT ![i] = NextSafety(i)]
         /\ curiosity' = [curiosity EXCEPT ![i] = NextCuriosity(i, r)]

\* The iteration with a death by starvation added: hunger 1 clears is_alive.
NeedsStepStarving ==
    /\ pc = "needs"
    /\ \E r \in RandDraws : NeedsEntity(cursor, r)
    /\ is_alive' = [is_alive EXCEPT ![cursor] = @ /\ hunger'[cursor] < NeedOne]
    /\ AdvanceCursor(NextSystem("needs"))
    /\ UNCHANGED <<transforms, perception, actions, health, max_health, armor_type,
                   spatial_grid, visible_entities, entity_count, delta_time, frame,
                   frame_number, chaos_count>>
    /\ UNCHANGED shuffle

\* One iteration of the loop of NeedsSystem::Update
NeedsStep ==
    /\ pc = "needs"
    /\ \E r \in RandDraws : NeedsEntity(cursor, r)
    /\ AdvanceCursor(NextSystem("needs"))
    /\ UNCHANGED <<transforms, perception, actions, healths, spatial_grid,
                   visible_entities, entity_count, delta_time, frame, frame_number,
                   chaos_count>>
    /\ UNCHANGED shuffle

\* "if (ENABLE_CHAOS)" of main with ENABLE_CHAOS false, and
\* "if (!enabled) return;" of ChaosMonkey::MaybeCorrupt
SkipChaos ==
    /\ pc = "chaos"
    /\ cursor = 0
    /\ pc' = "validate"
    /\ UNCHANGED <<transforms, perception, needs, actions, healths, spatial_grid,
                   visible_entities, entity_count, delta_time, frame, frame_number,
                   cursor, chaos_count>>
    /\ UNCHANGED shuffle

\* One iteration of the loop of ChaosMonkey::MaybeCorrupt: each of the three
\* draws may or may not fall under corruption_probability.
ChaosStep ==
    /\ pc = "chaos"
    /\ \E kill \in BOOLEAN,
          teleport \in ChaosPositions \cup {<< >>},
          corrupt \in ChaosNeeds \cup {<< >>} :
          LET i == cursor
              made == (IF kill THEN 1 ELSE 0) + (IF teleport # << >> THEN 1 ELSE 0)
                          + (IF corrupt # << >> THEN 1 ELSE 0)
          IN  /\ chaos_count + made <= MaxChaos
              /\ chaos_count' = chaos_count + made
              /\ is_alive' = IF kill THEN [is_alive EXCEPT ![i] = FALSE] ELSE is_alive
              /\ position_x' = IF teleport # << >>
                               THEN [position_x EXCEPT ![i] = teleport[1]]
                               ELSE position_x
              /\ position_y' = IF teleport # << >>
                               THEN [position_y EXCEPT ![i] = teleport[2]]
                               ELSE position_y
              /\ hunger' = IF corrupt # << >>
                           THEN [hunger EXCEPT ![i] = corrupt[1]]
                           ELSE hunger
              /\ energy' = IF corrupt # << >>
                           THEN [energy EXCEPT ![i] = corrupt[2]]
                           ELSE energy
    /\ AdvanceCursor("validate")
    /\ UNCHANGED <<velocity_x, velocity_y, orientation, perception, safety, curiosity,
                   actions, health, max_health, armor_type, spatial_grid,
                   visible_entities, entity_count, delta_time, frame, frame_number>>
    /\ UNCHANGED shuffle

\* The validation with its result ignored: the loop goes on to the log.
ValidateIgnored ==
    /\ pc = "validate"
    /\ pc' = "log"
    /\ UNCHANGED <<transforms, perception, needs, actions, healths, spatial_grid,
                   visible_entities, entity_count, delta_time, frame, frame_number,
                   cursor, chaos_count>>
    /\ UNCHANGED shuffle

\* "Validation" of main's loop: a failure returns 1.
Validate ==
    /\ pc = "validate"
    /\ pc' = IF ValidateState THEN "log" ELSE "exit_failure"
    /\ UNCHANGED <<transforms, perception, needs, actions, healths, spatial_grid,
                   visible_entities, entity_count, delta_time, frame, frame_number,
                   cursor, chaos_count>>
    /\ UNCHANGED shuffle

\* StateLogger::LogFrame and the "++frame" of main's loop
LogFrame ==
    /\ pc = "log"
    /\ frame_number' = frame_number + 1
    /\ frame' = frame + 1
    /\ pc' = IF frame + 1 < MaxFrames THEN "perception_build" ELSE "exit_success"
    /\ UNCHANGED <<transforms, perception, needs, actions, healths, spatial_grid,
                   visible_entities, entity_count, delta_time, cursor, chaos_count>>
    /\ UNCHANGED shuffle

Next ==
    \/ ValidateInitial
    \/ BuildSpatialPartition
    \/ PerceiveStep
    \/ DecideStep
    \/ KineticStep
    \/ NeedsStep
    \/ SkipChaos
    \/ ChaosStep
    \/ Validate
    \/ LogFrame

Spec == Init /\ [][Next]_vars

\* ------------------------------------------------------------------------
\* KineticSystem::Update on any GameState: one call, on a state whose
\* velocity, action and visible set are not those of InitializeEntities.
\* Entity 0 is the one under study, entity 1 stands still beside it.
\* ------------------------------------------------------------------------
KinVelocities == {<<0, 0>>, <<1000, 0>>, <<400, 0>>, <<-300, 400>>, <<0, -600>>, <<30, 40>>}

InitKin ==
    /\ entity_count = 2
    /\ position_x = [i \in 0 .. 1 |-> IF i = 0 THEN 5000 ELSE 5100]
    /\ position_y = [i \in 0 .. 1 |-> 5000]
    /\ \E v \in KinVelocities :
           /\ velocity_x = [i \in 0 .. 1 |-> IF i = 0 THEN v[1] ELSE 0]
           /\ velocity_y = [i \in 0 .. 1 |-> IF i = 0 THEN v[2] ELSE 0]
    /\ orientation = [i \in 0 .. 1 |-> 0]
    /\ view_range = [i \in 0 .. 1 |-> (50 + (i % 50)) * PosOne]
    /\ view_angle = [i \in 0 .. 1 |-> PI_DEG \div 2]
    /\ \E seen \in {<< >>, <<1>>} :
           /\ visible_entities = [i \in 0 .. 1 |-> IF i = 0 THEN seen ELSE << >>]
           /\ visible_entity_count = [i \in 0 .. 1 |-> IF i = 0 THEN Len(seen) ELSE 0]
    /\ hunger = [i \in 0 .. 1 |-> NeedOne \div 2]
    /\ energy = [i \in 0 .. 1 |-> NeedOne \div 2]
    /\ safety = [i \in 0 .. 1 |-> NeedOne \div 2]
    /\ curiosity = [i \in 0 .. 1 |-> NeedOne \div 2]
    /\ \E a \in ActionTypes :
           current_action = [i \in 0 .. 1 |-> IF i = 0 THEN a ELSE "EAT"]
    /\ action_utility = [i \in 0 .. 1 |-> 0]
    /\ target_entity = [i \in 0 .. 1 |-> INVALID_ENTITY]
    /\ target_x = [i \in 0 .. 1 |-> 5030]
    /\ target_y = [i \in 0 .. 1 |-> 5040]
    /\ health = [i \in 0 .. 1 |-> 100]
    /\ max_health = [i \in 0 .. 1 |-> 100]
    /\ armor_type = [i \in 0 .. 1 |-> i % 3]
    /\ is_alive = [i \in 0 .. 1 |-> TRUE]
    /\ spatial_grid = [c \in {} |-> << >>]
    /\ delta_time \in DeltaTimes
    /\ frame = 0
    /\ frame_number = 0
    /\ pc = "kinetic"
    /\ cursor = 0
    /\ chaos_count = 0
    /\ shuffle = NoShuffle

NextKin == KineticStep

SpecKin == InitKin /\ [][NextKin]_vars

\* ------------------------------------------------------------------------
\* PerceptionSystem::Update on any GameState: one call, on two live entities
\* standing anywhere in the world, the edges and the corner (1000, 1000)
\* included, with the view ranges and angles of InitializeEntities.
\* ------------------------------------------------------------------------
\* Coordinates in position units: 0, 0.5, 1, 9.9, 10, 29 and, at the far
\* edge, 989, 999 and 1000.
GridCoordsX == {0, 5, 10, 99, 100, 290, 9890, 9990, 10000}

GridCoordsY == {10, 150, 9990, 10000}

GridOrientations == {0, PI_DEG}

InitGrid ==
    /\ entity_count = 2
    /\ position_x \in [0 .. 1 -> GridCoordsX]
    /\ position_y \in [0 .. 1 -> GridCoordsY]
    /\ velocity_x = [i \in 0 .. 1 |-> 0]
    /\ velocity_y = [i \in 0 .. 1 |-> 0]
    /\ orientation \in [0 .. 1 -> GridOrientations]
    /\ view_range = [i \in 0 .. 1 |-> (50 + (i % 50)) * PosOne]
    /\ view_angle = [i \in 0 .. 1 |-> PI_DEG \div 2]
    /\ visible_entity_count = [i \in 0 .. 1 |-> 0]
    /\ hunger = [i \in 0 .. 1 |-> NeedOne \div 2]
    /\ energy = [i \in 0 .. 1 |-> NeedOne \div 2]
    /\ safety = [i \in 0 .. 1 |-> NeedOne \div 2]
    /\ curiosity = [i \in 0 .. 1 |-> NeedOne \div 2]
    /\ current_action = [i \in 0 .. 1 |-> "IDLE"]
    /\ action_utility = [i \in 0 .. 1 |-> 0]
    /\ target_entity = [i \in 0 .. 1 |-> INVALID_ENTITY]
    /\ target_x = [i \in 0 .. 1 |-> 0]
    /\ target_y = [i \in 0 .. 1 |-> 0]
    /\ health = [i \in 0 .. 1 |-> 100]
    /\ max_health = [i \in 0 .. 1 |-> 100]
    /\ armor_type = [i \in 0 .. 1 |-> i % 3]
    /\ is_alive = [i \in 0 .. 1 |-> TRUE]
    /\ spatial_grid = [c \in {} |-> << >>]
    /\ visible_entities = [i \in 0 .. 1 |-> << >>]
    /\ delta_time = DELTA_TIME
    /\ frame = 0
    /\ frame_number = 0
    /\ pc = "perception_build"
    /\ cursor = 0
    /\ chaos_count = 0
    /\ shuffle = NoShuffle

NextGrid ==
    \/ BuildSpatialPartition
    \/ PerceiveStep

SpecGrid == InitGrid /\ [][NextGrid]_vars

\* ------------------------------------------------------------------------
\* GameState::Initialize and GameState::AddEntity (Components.h), called in
\* any order on a default-constructed GameState, and the loop body of
\* InitializeEntities writing an entity's values.  pc names the call that
\* returned last.
\* ------------------------------------------------------------------------
\* Greatest entity_count of these runs.
MaxStore == 3

\* std::vector::resize(count, fill): the elements below count are kept, the
\* new ones are fill.
ResizeArray(arr, count, fill) ==
    [i \in 0 .. (count - 1) |-> IF i \in DOMAIN arr THEN arr[i] ELSE fill]

\* TransformComponents::Resize
TransformResize(count) ==
    /\ position_x' = ResizeArray(position_x, count, 0)
    /\ position_y' = ResizeArray(position_y, count, 0)
    /\ velocity_x' = ResizeArray(velocity_x, count, 0)
    /\ velocity_y' = ResizeArray(velocity_y, count, 0)
    /\ orientation' = ResizeArray(orientation, count, 0)

\* PerceptionComponents::Resize
PerceptionResize(count) ==
    /\ view_range' = ResizeArray(view_range, count, 0)
    /\ view_angle' = ResizeArray(view_angle, count, 0)
    /\ visible_entity_count' = ResizeArray(visible_entity_count, count, 0)

\* NeedsComponents::Resize
NeedsResize(count) ==
    /\ hunger' = ResizeArray(hunger, count, 0)
    /\ energy' = ResizeArray(energy, count, 0)
    /\ safety' = ResizeArray(safety, count, 0)
    /\ curiosity' = ResizeArray(curiosity, count, 0)

\* ActionComponents::Resize
ActionResize(count) ==
    /\ current_action' = ResizeArray(current_action, count, "IDLE")
    /\ action_utility' = ResizeArray(action_utility, count, 0)
    /\ target_entity' = ResizeArray(target_entity, count, INVALID_ENTITY)
    /\ target_x' = ResizeArray(target_x, count, 0)
    /\ target_y' = ResizeArray(target_y, count, 0)

\* HealthComponents::Resize
HealthResize(count) ==
    /\ health' = ResizeArray(health, count, 0)
    /\ max_health' = ResizeArray(max_health, count, 0)
    /\ armor_type' = ResizeArray(armor_type, count, 0)
    /\ is_alive' = ResizeArray(is_alive, count, TRUE)

\* The buffer left out of the resize.
StimulusResizeSkipped(count) == UNCHANGED visible_entities

\* StimulusBuffer::Resize
StimulusResize(count) ==
    visible_entities' = ResizeArray(visible_entities, count, << >>)

\* The six Resize calls of Initialize and of AddEntity.
ResizeAll(count) ==
    /\ TransformResize(count)
    /\ PerceptionResize(count)
    /\ NeedsResize(count)
    /\ ActionResize(count)
    /\ HealthResize(count)
    /\ StimulusResize(count)

\* GameState::Initialize(count)
Initialize ==
    \E count \in 0 .. MaxStore :
        /\ entity_count' = count
        /\ ResizeAll(count)
        /\ pc' = "initialize"
        /\ UNCHANGED <<spatial_grid, delta_time, frame, frame_number, cursor, chaos_count, shuffle>>

\* The id AddEntity returns: static_cast<EntityID>(entity_count), taken
\* before "entity_count++".
AddEntityId == entity_count

\* GameState::AddEntity
AddEntity ==
    /\ entity_count < MaxStore
    /\ entity_count' = entity_count + 1
    /\ ResizeAll(entity_count + 1)
    /\ pc' = "add_entity"
    /\ UNCHANGED <<spatial_grid, delta_time, frame, frame_number, cursor, chaos_count>>
    /\ UNCHANGED shuffle

StoreProfiles == {"hunter", "explorer", "fleer"}

\* One iteration of the loop of InitializeEntities, on any entity.
WriteEntity ==
    \E i \in Entities, name \in StoreProfiles :
        LET p == Profiles[name]
        IN  /\ position_x' = [position_x EXCEPT ![i] = p.x]
            /\ position_y' = [position_y EXCEPT ![i] = p.y]
            /\ velocity_x' = [velocity_x EXCEPT ![i] = 0]
            /\ velocity_y' = [velocity_y EXCEPT ![i] = 0]
            /\ orientation' = [orientation EXCEPT ![i] = p.orientation]
            /\ view_range' = [view_range EXCEPT ![i] = (50 + (i % 50)) * PosOne]
            /\ view_angle' = [view_angle EXCEPT ![i] = PI_DEG \div 2]
            /\ visible_entity_count' = [visible_entity_count EXCEPT ![i] = 0]
            /\ hunger' = [hunger EXCEPT ![i] = p.hunger]
            /\ energy' = [energy EXCEPT ![i] = p.energy]
            /\ safety' = [safety EXCEPT ![i] = p.safety]
            /\ curiosity' = [curiosity EXCEPT ![i] = p.curiosity]
            /\ current_action' = [current_action EXCEPT ![i] = "IDLE"]
            /\ action_utility' = [action_utility EXCEPT ![i] = 0]
            /\ target_entity' = [target_entity EXCEPT ![i] = INVALID_ENTITY]
            /\ target_x' = [target_x EXCEPT ![i] = 0]
            /\ target_y' = [target_y EXCEPT ![i] = 0]
            /\ health' = [health EXCEPT ![i] = 100]
            /\ max_health' = [max_health EXCEPT ![i] = 100]
            /\ armor_type' = [armor_type EXCEPT ![i] = i % 3]
            /\ is_alive' = [is_alive EXCEPT ![i] = TRUE]
            /\ pc' = "initialize_entity"
            /\ UNCHANGED <<entity_count, spatial_grid, visible_entities, delta_time,
                           frame, frame_number, cursor, chaos_count, shuffle>>

\* A default-constructed GameState.
InitStore ==
    /\ entity_count = 0
    /\ position_x = << >> /\ position_y = << >>
    /\ velocity_x = << >> /\ velocity_y = << >>
    /\ orientation = << >>
    /\ view_range = << >> /\ view_angle = << >> /\ visible_entity_count = << >>
    /\ hunger = << >> /\ energy = << >> /\ safety = << >> /\ curiosity = << >>
    /\ current_action = << >> /\ action_utility = << >>
    /\ target_entity = << >> /\ target_x = << >> /\ target_y = << >>
    /\ health = << >> /\ max_health = << >> /\ armor_type = << >> /\ is_alive = << >>
    /\ spatial_grid = [c \in {} |-> << >>]
    /\ visible_entities = << >>
    /\ delta_time = DELTA_TIME
    /\ frame = 0
    /\ frame_number = 0
    /\ pc = "constructed"
    /\ cursor = 0
    /\ chaos_count = 0
    /\ shuffle = NoShuffle

NextStore ==
    \/ Initialize
    \/ AddEntity
    \/ WriteEntity

SpecStore == InitStore /\ [][NextStore]_vars

\* ------------------------------------------------------------------------
\* SystemValidator::ValidateState on any snapshot: two entities, of which
\* entity 0 may hold a position outside the world or a need outside [0, 1],
\* and the perception and health groups may have a length other than
\* entity_count.
\* ------------------------------------------------------------------------
\* Positions: inside the world, beyond 1000 and below 0.
SnapshotPositions == {5000, 10010, -10}

\* Needs: inside [0, 1], above 1 and below 0.
SnapshotNeeds == {5000, 10001, -1}

\* Lengths of a group's arrays.
SnapshotLengths == {1, 2}

InitValidate ==
    /\ entity_count = 2
    /\ \E x \in SnapshotPositions : position_x = [i \in 0 .. 1 |-> IF i = 0 THEN x ELSE 5000]
    /\ \E y \in SnapshotPositions \ {-10} :
           position_y = [i \in 0 .. 1 |-> IF i = 0 THEN y ELSE 5000]
    /\ velocity_x = [i \in 0 .. 1 |-> 0]
    /\ velocity_y = [i \in 0 .. 1 |-> 0]
    /\ orientation = [i \in 0 .. 1 |-> 0]
    /\ \E n \in SnapshotLengths :
           /\ view_range = [i \in 0 .. (n - 1) |-> (50 + (i % 50)) * PosOne]
           /\ view_angle = [i \in 0 .. (n - 1) |-> PI_DEG \div 2]
           /\ visible_entity_count = [i \in 0 .. (n - 1) |-> 0]
    /\ \E h \in SnapshotNeeds : hunger = [i \in 0 .. 1 |-> IF i = 0 THEN h ELSE 5000]
    /\ \E e \in SnapshotNeeds \ {-1} : energy = [i \in 0 .. 1 |-> IF i = 0 THEN e ELSE 5000]
    /\ \E f \in SnapshotNeeds \ {10001} : safety = [i \in 0 .. 1 |-> IF i = 0 THEN f ELSE 5000]
    /\ \E c \in SnapshotNeeds \ {-1} : curiosity = [i \in 0 .. 1 |-> IF i = 0 THEN c ELSE 5000]
    /\ current_action = [i \in 0 .. 1 |-> "IDLE"]
    /\ action_utility = [i \in 0 .. 1 |-> 0]
    /\ target_entity = [i \in 0 .. 1 |-> INVALID_ENTITY]
    /\ target_x = [i \in 0 .. 1 |-> 0]
    /\ target_y = [i \in 0 .. 1 |-> 0]
    /\ \E n \in SnapshotLengths :
           /\ health = [i \in 0 .. (n - 1) |-> 100]
           /\ max_health = [i \in 0 .. (n - 1) |-> 100]
           /\ armor_type = [i \in 0 .. (n - 1) |-> i % 3]
           /\ is_alive = [i \in 0 .. (n - 1) |-> TRUE]
    /\ spatial_grid = [c \in {} |-> << >>]
    /\ visible_entities = [i \in 0 .. 1 |-> << >>]
    /\ delta_time = DELTA_TIME
    /\ frame = 0
    /\ frame_number = 0
    /\ pc = "validate_initial"
    /\ cursor = 0
    /\ chaos_count = 0
    /\ shuffle = NoShuffle

NextValidate == ValidateInitial

SpecValidate == InitValidate /\ [][NextValidate]_vars

\* ------------------------------------------------------------------------
\* The loops of PerceptionSystem, UtilitySystem and NeedsSystem run over the
\* entities in any order, and then again in ascending order from the same
\* state with the same draws of rand() for each entity.
\* ------------------------------------------------------------------------
Shuffled == {"perception", "utility", "needs"}

\* What the loop of a system writes.
Outputs(system) ==
    CASE system = "perception" -> <<visible_entities, visible_entity_count>>
      [] system = "utility"    -> actions
      [] system = "needs"      -> needs

\* The draws of rand() one iteration of a system's loop makes: none, two
\* (here the same number twice) or one.
DrawsOf(system) ==
    CASE system = "perception" -> {<<0, 0>>}
      [] system = "utility"    -> {<<r, r>> : r \in RandDraws}
      [] system = "needs"      -> RandDraws \X {0}

\* The body of the loop of a system for entity i with the draws d.
RunEntity(system, i, d) ==
    CASE system = "perception" -> PerceiveEntity(i) /\ UNCHANGED <<actions, needs>>
      [] system = "utility"    ->
             /\ DecideEntity(i, d[1], d[2])
             /\ UNCHANGED <<visible_entities, visible_entity_count, needs>>
      [] system = "needs"      ->
             /\ NeedsEntity(i, d[1])
             /\ UNCHANGED <<visible_entities, visible_entity_count, actions>>

\* A system is about to start: fix the draws and remember its outputs.
BeginShuffle ==
    /\ pc \in Shuffled
    /\ cursor = 0
    /\ shuffle.phase # "any"
    /\ IF shuffle.phase = "off" THEN TRUE ELSE shuffle.system # pc
    /\ \E d \in [Entities -> DrawsOf(pc)] :
           shuffle' = [phase |-> "any", system |-> pc, pending |-> Entities,
                       first |-> INVALID_ENTITY, draws |-> d, start |-> Outputs(pc),
                       result |-> Outputs(pc)]
    /\ UNCHANGED <<transforms, perception, needs, actions, healths, spatial_grid,
                   visible_entities, control>>

\* The body of the loop for any entity that is still to be processed.
ShuffleStep ==
    /\ shuffle.phase = "any"
    /\ \E i \in shuffle.pending :
           /\ RunEntity(shuffle.system, i, shuffle.draws[i])
           /\ shuffle' = [shuffle EXCEPT !.pending = @ \ {i},
                                         !.first = IF @ = INVALID_ENTITY THEN i ELSE @]
    /\ UNCHANGED <<transforms, view_range, view_angle, healths, spatial_grid, control>>

\* Every entity has been processed: keep the outputs as the result and put
\* the outputs of the start back.
Rewind ==
    /\ shuffle.phase = "any"
    /\ shuffle.pending = {}
    /\ shuffle' = [shuffle EXCEPT !.phase = "ascending",
                                  !.result = Outputs(shuffle.system)]
    /\ LET s == shuffle.system
           o == shuffle.start
       IN  /\ visible_entities' = IF s = "perception" THEN o[1] ELSE visible_entities
           /\ visible_entity_count' =
                  IF s = "perception" THEN o[2] ELSE visible_entity_count
           /\ current_action' = IF s = "utility" THEN o[1] ELSE current_action
           /\ action_utility' = IF s = "utility" THEN o[2] ELSE action_utility
           /\ target_entity' = IF s = "utility" THEN o[3] ELSE target_entity
           /\ target_x' = IF s = "utility" THEN o[4] ELSE target_x
           /\ target_y' = IF s = "utility" THEN o[5] ELSE target_y
           /\ hunger' = IF s = "needs" THEN o[1] ELSE hunger
           /\ energy' = IF s = "needs" THEN o[2] ELSE energy
           /\ safety' = IF s = "needs" THEN o[3] ELSE safety
           /\ curiosity' = IF s = "needs" THEN o[4] ELSE curiosity
    /\ UNCHANGED <<transforms, view_range, view_angle, healths, spatial_grid, control>>

\* One iteration of the system's own loop, in ascending order, with the
\* draws that were fixed for the entity.
AscendingStep ==
    /\ shuffle.phase = "ascending"
    /\ shuffle.system = pc
    /\ PerceiveStep \/ DecideStep \/ NeedsStep
    /\ RunEntity(pc, cursor, shuffle.draws[cursor])

OrderProfiles == {"hunter", "explorer", "fleer"}

InitOrder ==
    /\ \E scenario \in [0 .. NumEntities -> OrderProfiles] : InitializeEntities(scenario)
    /\ delta_time = 1000
    /\ frame = 0
    /\ frame_number = 0
    /\ pc = "validate_initial"
    /\ cursor = 0
    /\ chaos_count = 0
    /\ shuffle = NoShuffle

NextOrder ==
    \/ ValidateInitial
    \/ BuildSpatialPartition
    \/ BeginShuffle
    \/ ShuffleStep
    \/ Rewind
    \/ AscendingStep
    \/ KineticStep
    \/ SkipChaos
    \/ Validate
    \/ LogFrame

SpecOrder == InitOrder /\ [][NextOrder]_vars

\* ------------------------------------------------------------------------
\* main's loop entered at the initial validation, or at the validation of
\* any frame, with a snapshot that may be one the validator rejects.  The
\* loop is sequential code: a statement that can run does run.
\* ------------------------------------------------------------------------
DriverProfiles == {"hunter", "idle", "corrupt"}

InitDriver ==
    /\ \E scenario \in [0 .. 1 -> DriverProfiles] : InitializeEntities(scenario)
    /\ delta_time = DELTA_TIME
    /\ frame \in 0 .. (MaxFrames - 1)
    /\ frame_number = frame
    /\ pc \in {"validate_initial", "validate"}
    /\ pc = "validate_initial" => frame = 0
    /\ cursor = 0
    /\ chaos_count = 0
    /\ shuffle = NoShuffle

SpecDriver == InitDriver /\ [][Next]_vars /\ WF_vars(Next)

\* ========================================================================
\* Properties
\* ========================================================================
Alive == {i \in Entities : is_alive[i]}

WorldUnits == WORLD_MAX * PosOne

\* pc values at which PerceptionSystem::Update of the frame has returned and
\* the ChaosMonkey has not yet run.
AfterPerception == {"utility", "kinetic", "needs"}

\* pc values of the four systems of a frame.
InSystems == {"perception_build", "perception", "utility", "kinetic", "needs"}

\* C1: in every state reached from InitializeEntities, after any number of
\* frames and for every delta_time, hunger, energy, safety and curiosity of
\* every entity lie in [0, 1].
C1_NeedsInRange ==
    \A i \in Entities :
        /\ hunger[i] >= 0 /\ hunger[i] <= NeedOne
        /\ energy[i] >= 0 /\ energy[i] <= NeedOne
        /\ safety[i] >= 0 /\ safety[i] <= NeedOne
        /\ curiosity[i] >= 0 /\ curiosity[i] <= NeedOne

\* C1 witness: after two frames an entity that saw a crowd sits on all four
\* bounds: hunger and curiosity capped at 1, energy and safety floored at 0.
C1_Witness ==
    /\ frame = 2
    /\ \E i \in Alive :
           /\ visible_entity_count[i] > CROWD_THRESHOLD
           /\ hunger[i] = NeedOne /\ curiosity[i] = NeedOne
           /\ energy[i] = 0 /\ safety[i] = 0

\* An iteration of KineticSystem::Update moves a live entity along its new
\* velocity, never against it.
NoWrapStep ==
    (pc = "kinetic" /\ is_alive[cursor]) =>
        (/\ velocity_x'[cursor] >= 0 => position_x'[cursor] >= position_x[cursor]
         /\ velocity_x'[cursor] <= 0 => position_x'[cursor] <= position_x[cursor]
         /\ velocity_y'[cursor] >= 0 => position_y'[cursor] >= position_y[cursor]
         /\ velocity_y'[cursor] <= 0 => position_y'[cursor] <= position_y[cursor])

\* C2: every position stays in [0, 1000] on both axes, and an iteration of
\* KineticSystem::Update never moves an entity against its velocity (the
\* boundary clamps, it does not wrap), wherever the target lies.
C2_PositionInWorld ==
    /\ [](\A i \in Entities :
              /\ position_x[i] >= 0 /\ position_x[i] <= WorldUnits
              /\ position_y[i] >= 0 /\ position_y[i] <= WorldUnits)
    /\ [][NoWrapStep]_vars

\* C2 witness: an explorer whose target lies outside the world on both axes
\* was stopped in the corner (1000, 0) while still moving outward.
C2_Witness ==
    \E i \in Alive :
        /\ current_action[i] = "EXPLORE"
        /\ target_x[i] > WorldUnits /\ target_y[i] < 0
        /\ velocity_x[i] > 0 /\ velocity_y[i] < 0
        /\ position_x[i] = WorldUnits /\ position_y[i] = 0

\* C3: once PerceptionSystem::Update has returned, and until it runs again,
\* visible_entity_count of every entity, live or dead, is the length of its
\* visible set.
C3_CountIsLength ==
    pc \in AfterPerception =>
        \A i \in Entities : visible_entity_count[i] = Len(visible_entities[i])

\* Whether entity d is listed in some bucket of the grid.
InSomeBucket(d) ==
    \E c \in DOMAIN spatial_grid : \E k \in 1 .. Len(spatial_grid[c]) : spatial_grid[c][k] = d

\* Whether entity d is listed in the visible set of entity i.
InVisibleSet(i, d) ==
    \E k \in 1 .. Len(visible_entities[i]) : visible_entities[i][k] = d

\* C4: after PerceptionSystem::Update of a frame, a dead entity is in no
\* bucket of the grid and in no visible set; so the attack target and the
\* flee threat that UtilitySystem and KineticSystem read are alive.
C4_DeadExcluded ==
    pc \in AfterPerception =>
        /\ \A d \in Entities \ Alive :
               /\ ~InSomeBucket(d)
               /\ \A i \in Entities : ~InVisibleSet(i, d)
        /\ pc \in {"kinetic", "needs"} =>
               \A i \in Alive :
                   /\ current_action[i] = "ATTACK" => target_entity[i] \in Alive
                   /\ (current_action[i] = "FLEE" /\ visible_entities[i] # << >>)
                          => visible_entities[i][1] \in Alive

\* C4 witness: in KineticSystem a dead entity stands where a live one would
\* see it: in one of the cells it checks, in range and in its field of view.
C4_Witness ==
    /\ pc = "kinetic"
    /\ \E d \in Entities \ Alive : \E i \in Alive :
           /\ InRange(i, d) /\ InFieldOfView(i, d)
           /\ \E k \in 1 .. Len(CheckCells(position_x[i], position_y[i])) :
                  CheckCells(position_x[i], position_y[i])[k]
                      = InsertCell(position_x[d], position_y[d])
           /\ visible_entities[i] = << >>

\* A step of the four systems leaves the attributes of dead entities alone.
DeadUnchangedStep ==
    pc \in InSystems =>
        \A i \in Entities \ Alive :
            /\ position_x'[i] = position_x[i] /\ position_y'[i] = position_y[i]
            /\ velocity_x'[i] = velocity_x[i] /\ velocity_y'[i] = velocity_y[i]
            /\ orientation'[i] = orientation[i]
            /\ hunger'[i] = hunger[i] /\ energy'[i] = energy[i]
            /\ safety'[i] = safety[i] /\ curiosity'[i] = curiosity[i]
            /\ current_action'[i] = current_action[i]
            /\ action_utility'[i] = action_utility[i]
            /\ target_entity'[i] = target_entity[i]
            /\ target_x'[i] = target_x[i] /\ target_y'[i] = target_y[i]

\* C5: no step of the four systems changes position, velocity, orientation,
\* needs, action, utility or target of a dead entity.
C5_DeadUnchanged == [][DeadUnchangedStep]_vars

\* C5 witness: the four systems of the second frame have run over a dead
\* entity that was exploring and moving, with hunger below 1 and energy
\* above 0.
C5_Witness ==
    /\ frame = 1
    /\ pc = "chaos" /\ cursor = 0
    /\ \E i \in Entities \ Alive :
           /\ velocity_x[i] # 0
           /\ hunger[i] < NeedOne /\ energy[i] > 0
           /\ current_action[i] = "EXPLORE"

\* The five scores of entity i, in the order UtilitySystem::Update compares
\* them, and the actions they stand for.
Scores(i) ==
    <<CalculateEatUtility(i), CalculateSleepUtility(i), CalculateFleeUtility(i),
      CalculateExploreUtility(i), CalculateAttackUtility(i)>>

Priority == <<"EAT", "SLEEP", "FLEE", "EXPLORE", "ATTACK">>

\* The greatest of the five scores sc.
MaxOf(sc) ==
    Max(sc[1], Max(sc[2], Max(sc[3], Max(sc[4], sc[5]))))

MaxScore(i) == MaxOf(Scores(i))

\* C6: while KineticSystem runs (needs and visible sets are those the
\* decision read), the action of a live entity whose greatest score is
\* positive is the first, in the order eat, sleep, flee, explore, attack,
\* of the actions with that score; with hunger 1 and energy 0 it is not
\* sleep, and it is eat when eat has the greatest score.
C6_TieBreak ==
    pc = "kinetic" =>
        \A i \in Alive :
            LET sc == Scores(i)
                m  == MaxOf(sc)
            IN  /\ \A k \in 1 .. 5 :
                       (/\ m > 0
                        /\ sc[k] = m
                        /\ \A j \in 1 .. (k - 1) : sc[j] < m)
                           => current_action[i] = Priority[k]
                /\ (hunger[i] = NeedOne /\ energy[i] = 0) =>
                       /\ current_action[i] # "SLEEP"
                       /\ sc[1] = m => current_action[i] = "EAT"

\* C6 witness: an entity with hunger 1 and energy 0, whose eat and sleep
\* scores are equal and the greatest, has chosen eat.
C6_Witness ==
    /\ pc = "kinetic"
    /\ \E i \in Alive :
           /\ hunger[i] = NeedOne /\ energy[i] = 0
           /\ Scores(i)[1] = Scores(i)[2] /\ Scores(i)[1] = MaxScore(i)
           /\ current_action[i] = "EAT"

\* The score, among sc, of an action; idle is the baseline 0.
ScoreOf(sc, action) ==
    CASE action = "EAT"     -> sc[1]
      [] action = "SLEEP"   -> sc[2]
      [] action = "FLEE"    -> sc[3]
      [] action = "EXPLORE" -> sc[4]
      [] action = "ATTACK"  -> sc[5]
      [] action = "IDLE"    -> 0
      [] OTHER              -> -1

\* C7: while KineticSystem runs, for every live entity the stored utility
\* is max(0, the five scores), the selected action has that score, and the
\* action is idle exactly when no score is positive.
C7_MaxUtility ==
    pc = "kinetic" =>
        \A i \in Alive :
            LET sc == Scores(i)
            IN  /\ action_utility[i] = Max(0, MaxOf(sc))
                /\ ScoreOf(sc, current_action[i]) = action_utility[i]
                /\ current_action[i] = "IDLE" <=> \A k \in 1 .. 5 : sc[k] <= 0

\* C7 witness: one live entity idles with no positive score while another
\* one acts on a positive score that is not its first one.
C7_Witness ==
    /\ pc = "kinetic"
    /\ \E i \in Alive : \E j \in Alive :
           /\ current_action[i] = "IDLE" /\ MaxScore(i) = 0
           /\ current_action[j] = "ATTACK" /\ action_utility[j] > Scores(j)[1]
           /\ Scores(j)[1] > 0

\* pc values between the end of UtilitySystem::Update and the end of the frame.
AfterUtility == {"kinetic", "needs", "chaos", "validate", "log"}

\* A step that decides attack copies the position the first visible entity
\* has at that moment; the decisions of a frame move no entity and touch no
\* other entity's target; no later step of the frame touches any target.
AttackSnapshotStep ==
    /\ (pc = "utility" /\ is_alive[cursor] /\ current_action'[cursor] = "ATTACK") =>
           /\ visible_entities[cursor] # << >>
           /\ target_entity'[cursor] = visible_entities[cursor][1]
           /\ target_x'[cursor] = position_x[visible_entities[cursor][1]]
           /\ target_y'[cursor] = position_y[visible_entities[cursor][1]]
    /\ pc = "utility" =>
           /\ UNCHANGED <<position_x, position_y>>
           /\ \A j \in Entities \ {cursor} :
                  /\ target_entity'[j] = target_entity[j]
                  /\ target_x'[j] = target_x[j]
                  /\ target_y'[j] = target_y[j]
    /\ pc \in AfterUtility => UNCHANGED <<target_entity, target_x, target_y>>

\* C8: when entity A selects attack against the visible entity B, the
\* target position of A becomes the position B has while UtilitySystem runs
\* (no entity moves during UtilitySystem), and nothing changes it until the
\* end of the frame, whatever KineticSystem does to B and whichever of the
\* two has the lower index.
C8_AttackSnapshot == [][AttackSnapshotStep]_vars

\* C8 witness: at the end of a frame without corruption an attacker holds a
\* target position that its target, of lower index, has since moved away from.
C8_Witness ==
    /\ pc = "log"
    /\ chaos_count = 0
    /\ \E a \in Alive :
           /\ current_action[a] = "ATTACK"
           /\ target_entity[a] \in Entities
           /\ target_entity[a] < a
           /\ <<velocity_x[target_entity[a]], velocity_y[target_entity[a]]>> # <<0, 0>>
           /\ <<target_x[a], target_y[a]>>
                  # <<position_x[target_entity[a]], position_y[target_entity[a]]>>

\* The damping of one iteration of KineticSystem::Update read alone: the new
\* velocity of a sleeping or idle entity is 0.9 times the old one, to the
\* rounding of the velocity unit.
DampedExactlyStep ==
    (pc = "kinetic" /\ is_alive[cursor] /\ Decelerates(current_action[cursor])) =>
        /\ Abs(10 * velocity_x'[cursor] - 9 * velocity_x[cursor]) <= 5
        /\ Abs(10 * velocity_y'[cursor] - 9 * velocity_y[cursor]) <= 5

\* C9 as stated: one call of KineticSystem::Update leaves the velocity of a
\* live idle or sleeping entity at 0.9 times its value, for every
\* delta_time; velocity (10, 0) becomes (9, 0).
C9_DampedExactly == [][DampedExactlyStep]_vars

\* One iteration of KineticSystem::Update on a sleeping or idle entity:
\* 0.9 times the velocity when that is no faster than MAX_SPEED, otherwise
\* a velocity of magnitude MAX_SPEED along the old one.
DampedThenClampedStep ==
    (pc = "kinetic" /\ is_alive[cursor] /\ Decelerates(current_action[cursor])) =>
        LET vx == velocity_x[cursor]
            vy == velocity_y[cursor]
            nx == velocity_x'[cursor]
            ny == velocity_y'[cursor]
            limit == MAX_SPEED * VelOne
        IN  IF 81 * (vx * vx + vy * vy) <= 100 * limit * limit
            THEN /\ Abs(10 * nx - 9 * vx) <= 5
                 /\ Abs(10 * ny - 9 * vy) <= 5
            ELSE /\ nx * nx + ny * ny >= (limit - 1) * (limit - 1)
                 /\ nx * nx + ny * ny <= (limit + 1) * (limit + 1)
                 /\ nx * vx + ny * vy > 0
                 /\ Abs(nx * vy - ny * vx) <= Abs(vx) + Abs(vy)

\* C9 amended: one call of KineticSystem::Update leaves the velocity of a
\* live idle or sleeping entity at 0.9 times its value, for every
\* delta_time, when 0.9 times its speed is at most MAX_SPEED; otherwise the
\* velocity is rescaled to magnitude MAX_SPEED in the same direction, so
\* (10, 0) becomes (5, 0).
C9_DampedThenClamped == [][DampedThenClampedStep]_vars

\* C9 witness: an idle entity that had velocity (4, 0) has velocity (3.6, 0)
\* after its iteration, with a delta_time that is not main's.
C9_Witness ==
    /\ pc = "kinetic" /\ cursor = 1
    /\ delta_time # DELTA_TIME
    /\ current_action[0] = "IDLE"
    /\ velocity_x[0] = 360 /\ velocity_y[0] = 0

\* The systems of a frame in the order main calls them.
StageOrder ==
    {<<"perception_build", "perception">>, <<"perception", "utility">>,
     <<"utility", "kinetic">>, <<"kinetic", "needs">>}

\* The systems whose loop goes through the entities.
PerEntity == {"perception", "utility", "kinetic", "needs"}

\* A step leaves a system only for the next one of StageOrder and enters a
\* system only from the one before it; a loop over the entities hands over
\* only after its last entity and otherwise goes on to the next entity; the
\* grid and the visible sets do not change once PerceptionSystem returned,
\* nor the actions once UtilitySystem returned.
StageOrderStep ==
    /\ (pc' # pc /\ (pc \in InSystems \ {"needs"} \/ pc' \in InSystems \ {"perception_build"}))
           => <<pc, pc'>> \in StageOrder
    /\ (pc' # pc /\ pc \in PerEntity) => cursor = entity_count - 1
    /\ (pc' = pc /\ pc \in PerEntity) => cursor' = cursor + 1
    /\ pc \in AfterPerception =>
           UNCHANGED <<spatial_grid, visible_entities, visible_entity_count>>
    /\ pc \in {"kinetic", "needs"} => UNCHANGED actions

\* C10: in every frame the systems run in the order grid rebuild,
\* PerceptionSystem, UtilitySystem, KineticSystem, NeedsSystem, each loop
\* complete before the next begins: while UtilitySystem runs the grid is the
\* rebuilt one and every live entity's visible set is the one computed from
\* it (a dead entity's is empty); while KineticSystem runs every live
\* entity's action is the decision of this frame, and while NeedsSystem runs
\* so is the action of every live entity not yet updated.
C10_StageOrder ==
    /\ [](/\ pc = "utility" =>
                /\ spatial_grid = BuildGrid(entity_count)
                /\ \A j \in Entities :
                       visible_entities[j] =
                           IF is_alive[j] THEN VisibleSet(spatial_grid, j) ELSE << >>
          /\ pc = "kinetic" =>
                \A j \in Alive : current_action[j] = Decision(j).best_action
          /\ pc = "needs" =>
                \A j \in Alive : j >= cursor => current_action[j] = Decision(j).best_action)
    /\ [][StageOrderStep]_vars

\* C10 witness: in the second frame NeedsSystem has reached its last entity
\* while an entity that saw another one in this frame holds a decided action.
C10_Witness ==
    /\ frame = 1
    /\ pc = "needs"
    /\ cursor = entity_count - 1
    /\ \E j \in Alive :
           /\ visible_entities[j] # << >>
           /\ current_action[j] # "IDLE"

\* The cells the 3x3 loops visit for the observer i, as a set.
VisitedCells(i) ==
    LET cells == CheckCells(position_x[i], position_y[i])
    IN  {cells[k] : k \in 1 .. Len(cells)}

\* The 3x3 block around the cell Insert stores i in, each coordinate wrapped
\* into 0 .. GRID_SIZE - 1.
WrappedBlock(i) ==
    LET c == InsertCell(position_x[i], position_y[i])
    IN  {<<(c[1] + dx) % GRID_SIZE, (c[2] + dy) % GRID_SIZE>> :
             dx \in -1 .. 1, dy \in -1 .. 1}

\* C11: for every observer the 3x3 loops visit exactly the nine cells
\* ((cx + dx) mod G, (cy + dy) mod G) around the cell (cx, cy) Insert stores
\* it in, so that an observer in column or row 0 also visits column or row
\* G - 1.
C11_NineWrappedCells ==
    \A i \in Alive :
        /\ VisitedCells(i) = WrappedBlock(i)
        /\ Len(CheckCells(position_x[i], position_y[i])) = 9

\* Whether the cells observer a visits list entity b.
IsCandidate(a, b) ==
    LET found == Candidates(spatial_grid, CheckCells(position_x[a], position_y[a]))
    IN  b # a /\ \E k \in 1 .. Len(found) : found[k] = b

\* The two live entities the grid-wrap case is about: a at x = 999 and b at
\* x = 1, with equal y, once the grid of the frame is built.
AcrossTheEdge(a, b) ==
    /\ pc = "utility"
    /\ a \in Alive /\ b \in Alive
    /\ position_x[a] = 999 * PosOne /\ position_x[b] = 1 * PosOne
    /\ position_y[a] = position_y[b]

\* C12 as stated: of a live entity at x = 999 and a live one at x = 1 with
\* equal y, neither is among the candidates the grid gives the other.
C12_NotCandidates ==
    \A a, b \in Entities :
        AcrossTheEdge(a, b) => ~IsCandidate(a, b) /\ ~IsCandidate(b, a)

\* C12 amended: the entity at x = 1 is among the candidates of the entity
\* at x = 999 (column 99 + 1 wraps to column 0), the entity at x = 999 is
\* not among the candidates of the one at x = 1 (column 0 - 1 is skipped),
\* and neither is in the other's visible set.
C12_CandidateOneWay ==
    \A a, b \in Entities :
        AcrossTheEdge(a, b) =>
            /\ IsCandidate(a, b) /\ ~IsCandidate(b, a)
            /\ ~InVisibleSet(a, b) /\ ~InVisibleSet(b, a)

\* C12 witness: entity 0 at x = 999 faces entity 1 at x = 1 in the same
\* row, gets it as a candidate and sees nothing.
C12_Witness ==
    /\ AcrossTheEdge(0, 1)
    /\ orientation[0] = PI_DEG
    /\ IsCandidate(0, 1)
    /\ visible_entities[0] = << >> /\ visible_entities[1] = << >>

\* C13: in every reachable state floor(coord / CELL_SIZE) of both
\* coordinates of every entity is in 0 .. GRID_SIZE - 1, so the modulo of
\* Insert changes no cell.
C13_NoWrappedCell ==
    \A i \in Entities :
        /\ CellCoord(position_x[i]) \in 0 .. (GRID_SIZE - 1)
        /\ CellCoord(position_y[i]) \in 0 .. (GRID_SIZE - 1)

\* Entity b gets through the cell lookup and the distance check of a.
PassesDistance(a, b) == IsCandidate(a, b) /\ InRange(a, b)

\* C14: once the grid is built, for any two live entities b gets through
\* the cell lookup and distance check of a exactly when a gets through
\* those of b.  (That the field-of-view check breaks the symmetry is a
\* reachable state, C14_Witness.)
C14_DistanceSymmetric ==
    pc = "utility" =>
        \A a, b \in Alive :
            a # b => (PassesDistance(a, b) <=> PassesDistance(b, a))

\* C14 witness: two live entities get through each other's distance check,
\* and one has the other in its visible set but not the reverse.
C14_Witness ==
    /\ pc = "utility"
    /\ \E a, b \in Alive :
           /\ PassesDistance(a, b) /\ PassesDistance(b, a)
           /\ InVisibleSet(a, b) /\ ~InVisibleSet(b, a)

\* The arrays of the five component groups and the stimulus buffer.
AllArrays ==
    <<position_x, position_y, velocity_x, velocity_y, orientation,
      view_range, view_angle, visible_entity_count,
      hunger, energy, safety, curiosity,
      current_action, action_utility, target_entity, target_x, target_y,
      health, max_health, armor_type, is_alive, visible_entities>>

\* A step that is a call of AddEntity adds the index AddEntity returns, the
\* previous entity_count, and leaves every value below it as it was.
AddEntityStep ==
    pc' = "add_entity" =>
        /\ AddEntityId = entity_count' - 1
        /\ AddEntityId \notin DOMAIN position_x
        /\ \A k \in 1 .. Len(AllArrays) :
               /\ DOMAIN AllArrays'[k] = DOMAIN AllArrays[k] \cup {AddEntityId}
               /\ \A j \in DOMAIN AllArrays[k] : AllArrays'[k][j] = AllArrays[k][j]

\* C15: after any sequence of Initialize(count) and AddEntity() calls every
\* array of the five groups and the visible-set buffer has entity_count
\* elements; AddEntity returns the previous entity_count, which is the index
\* of the new entity, and moves or changes no entity that existed.
C15_EqualLength ==
    /\ [](\A k \in 1 .. Len(AllArrays) : DOMAIN AllArrays[k] = 0 .. (entity_count - 1))
    /\ [][AddEntityStep]_vars

\* C15 witness: AddEntity has just added the last of three entities, with
\* default values, beside two entities whose values were written before.
C15_Witness ==
    /\ pc = "add_entity"
    /\ entity_count = 3
    /\ hunger[0] # 0 /\ position_x[1] # 0
    /\ position_x[2] = 0 /\ is_alive[2] /\ current_action[2] = "IDLE"
    /\ target_entity[2] = INVALID_ENTITY

\* A snapshot the validator is to reject: a group whose length is not
\* entity_count, a position outside the world or a need outside [0, 1].
Malformed ==
    \/ \E k \in 1 .. Len(AllArrays) \ {Len(AllArrays)} :
           DOMAIN AllArrays[k] # 0 .. (entity_count - 1)
    \/ \E i \in DOMAIN position_x :
           \/ position_x[i] < 0 \/ position_x[i] > WorldUnits
           \/ position_y[i] < 0 \/ position_y[i] > WorldUnits
    \/ \E i \in DOMAIN hunger :
           \/ hunger[i] < 0 \/ hunger[i] > NeedOne
           \/ energy[i] < 0 \/ energy[i] > NeedOne
           \/ safety[i] < 0 \/ safety[i] > NeedOne
           \/ curiosity[i] < 0 \/ curiosity[i] > NeedOne

\* C16: ValidateState fails (main returns 1) for every snapshot in which a
\* group's length differs from entity_count, a position is outside the
\* world or one of the four needs is outside [0, 1], and passes otherwise.
C16_ValidatorComplete ==
    /\ pc = "exit_failure" => Malformed
    /\ pc = "perception_build" => ~Malformed

\* The two returns of main.
Exits == {"exit_success", "exit_failure"}

\* No statement runs after a return; a failed validation returns at once
\* and changes nothing; the frame counter only grows by the "++frame" that
\* follows the log of the frame, and a log record is written only there.
DriverStep ==
    /\ pc \notin Exits
    /\ (pc \in {"validate_initial", "validate"} /\ ~ValidateState) =>
           /\ pc' = "exit_failure"
           /\ UNCHANGED <<transforms, perception, needs, actions, healths, spatial_grid,
                          visible_entities, frame, frame_number>>
    /\ frame' # frame => (pc = "log" /\ frame' = frame + 1)
    /\ frame_number' # frame_number => (pc = "log" /\ frame_number' = frame_number + 1)

\* C17: main always returns; it returns success after exactly the
\* configured number of frames, each logged; when a validation fails in
\* frame f it returns at once, with the records of the frames before f only
\* and no statement of a later frame run.
C17_Terminates ==
    /\ <>(pc \in Exits)
    /\ [](pc = "exit_success" => (frame = MaxFrames /\ frame_number = MaxFrames))
    /\ [](pc = "exit_failure" => (frame < MaxFrames /\ frame_number = frame))
    /\ [][DriverStep]_vars

\* C17 witness: the validation of the second frame failed on a hunger above
\* 1 and main returned with the record of the first frame only.
C17_Witness ==
    /\ pc = "exit_failure"
    /\ frame = 1 /\ frame_number = 1
    /\ \E i \in Entities : hunger[i] > NeedOne

\* C18: once the ChaosMonkey has killed entities, moved entities inside the
\* world or overwritten hunger and energy with values of [0, 1], main never
\* returns failure and every validation passes, every need and position
\* stays in range, and after PerceptionSystem of every later frame no dead
\* entity is in a bucket of the grid or in a visible set.
C18_ToleratesCorruption ==
    chaos_count > 0 =>
        /\ pc # "exit_failure"
        /\ pc = "validate" => ValidateState
        /\ \A i \in Entities :
               /\ position_x[i] >= 0 /\ position_x[i] <= WorldUnits
               /\ position_y[i] >= 0 /\ position_y[i] <= WorldUnits
               /\ {hunger[i], energy[i], safety[i], curiosity[i]} \subseteq 0 .. NeedOne
        /\ pc \in AfterPerception =>
               \A d \in Entities \ Alive :
                   ~InSomeBucket(d) /\ \A i \in Entities : ~InVisibleSet(i, d)

\* C18 witness: the four systems of the second frame have run after a kill
\* in the first frame, beside a live entity that is moving, and the state
\* passes the validation.
C18_Witness ==
    /\ frame = 1 /\ pc = "chaos" /\ cursor = 0
    /\ chaos_count > 0
    /\ Entities \ Alive # {}
    /\ \E i \in Alive : velocity_x[i] # 0
    /\ ValidateState

\* C19: when the loop of PerceptionSystem, UtilitySystem or NeedsSystem has
\* run in ascending order, what it wrote is what the same loop wrote when
\* it processed the entities in any other order, from the same state and
\* with the same draws of rand() for each entity.
C19_OrderIndependent ==
    (/\ shuffle.phase = "ascending"
     /\ pc = NextSystem(shuffle.system)
     /\ cursor = 0)
        => Outputs(shuffle.system) = shuffle.result

\* C19 witness: UtilitySystem first ran from the last entity on, an
\* attacker took the position of its target, an explorer drew a target,
\* and the ascending loop has finished too.
C19_Witness ==
    /\ shuffle.phase = "ascending"
    /\ shuffle.system = "utility"
    /\ pc = "kinetic" /\ cursor = 0
    /\ shuffle.first = entity_count - 1
    /\ shuffle.result # shuffle.start
    /\ \E i, j \in Alive :
           /\ current_action[i] = "ATTACK" /\ target_entity[i] = j
           /\ current_action[j] = "EXPLORE"

\* Squared length of the vector (x, y).
NormSq(x, y) == x * x + y * y

\* MAX_SPEED in velocity units, and the same plus one unit of rounding.
SpeedLimit == MAX_SPEED * VelOne

\* The farthest an entity at MAX_SPEED moves in one delta_time, in position
\* units, with one unit of rounding.
Reach == ((SpeedLimit + 1) * delta_time * PosOne) \div (VelOne * DtOne) + 1

\* One iteration of KineticSystem::Update clamps the speed of the entity
\* and moves it no farther than Reach; no other statement of main moves
\* or accelerates an entity (the ChaosMonkey may move one).
SpeedLimitStep ==
    /\ pc = "kinetic" /\ is_alive[cursor] =>
           LET i == cursor
               m == ActionMovement(i)
               vx == velocity_x'[i]
               vy == velocity_y'[i]
           IN  /\ IF NormSq(m.vx, m.vy) > SpeedLimit * SpeedLimit
                  THEN /\ NormSq(vx, vy) <= (SpeedLimit + 1) * (SpeedLimit + 1)
                       /\ NormSq(vx, vy) >= (SpeedLimit - 1) * (SpeedLimit - 1)
                       /\ vx * m.vx + vy * m.vy > 0
                       /\ Abs(vx * m.vy - vy * m.vx) <= Abs(m.vx) + Abs(m.vy)
                  ELSE vx = m.vx /\ vy = m.vy
               /\ NormSq(position_x'[i] - position_x[i],
                         position_y'[i] - position_y[i]) <= Reach * Reach
               /\ \A j \in Entities \ {i} :
                      /\ position_x'[j] = position_x[j] /\ position_y'[j] = position_y[j]
                      /\ velocity_x'[j] = velocity_x[j] /\ velocity_y'[j] = velocity_y[j]
    /\ pc = "kinetic" /\ ~is_alive[cursor] => UNCHANGED transforms
    /\ pc # "kinetic" => UNCHANGED <<velocity_x, velocity_y>>
    /\ pc \notin {"kinetic", "chaos"} => UNCHANGED <<position_x, position_y>>

\* C20: the speed of every entity is at most MAX_SPEED in every state main
\* reaches from velocity zero; a velocity the action-based movement takes
\* above MAX_SPEED is rescaled to MAX_SPEED in the same direction; and
\* KineticSystem, the only system that moves an entity, moves it by at most
\* MAX_SPEED * delta_time in a frame.
C20_SpeedLimit ==
    /\ [](\A i \in Entities :
              NormSq(velocity_x[i], velocity_y[i]) <= (SpeedLimit + 1) * (SpeedLimit + 1))
    /\ [][SpeedLimitStep]_vars

\* C20 witness: an entity whose action-based movement went above MAX_SPEED
\* on both axes has left KineticSystem at MAX_SPEED.
C20_Witness ==
    /\ pc = "needs"
    /\ \E i \in Alive :
           /\ current_action[i] = "EXPLORE"
           /\ velocity_x[i] # 0 /\ velocity_y[i] # 0
           /\ NormSq(velocity_x[i], velocity_y[i]) >= (SpeedLimit - 1) * (SpeedLimit - 1)

\* How often entity i occurs in the buckets of the grid.
Occurrences(i) ==
    LET InBucket(c) == Cardinality({k \in 1 .. Len(spatial_grid[c]) : spatial_grid[c][k] = i})
        RECURSIVE Sum(_)
        Sum(cs) == IF cs = {} THEN 0
                   ELSE LET c == CHOOSE d \in cs : TRUE
                        IN  InBucket(c) + Sum(cs \ {c})
    IN  Sum(DOMAIN spatial_grid)

\* The place (1 .. 9, dx outer, dy inner) of target's cell in the 3x3 block
\* around the observer, 0 when the cell is not in the block.
TraversalRank(observer, target) ==
    LET gx == CellCoord(position_x[observer])
        gy == CellCoord(position_y[observer])
        cell == InsertCell(position_x[target], position_y[target])
        hits == {k \in 1 .. 9 :
                    /\ CMod(gx + ((k - 1) \div 3) - 1, GRID_SIZE) = cell[1]
                    /\ CMod(gy + ((k - 1) % 3) - 1, GRID_SIZE) = cell[2]}
    IN  IF hits = {} THEN 0 ELSE CHOOSE k \in hits : \A h \in hits : k <= h

\* C21: after the grid is rebuilt every live entity inside the world is in
\* the buckets exactly once and every bucket is in strictly ascending order
\* of entity index; after PerceptionSystem every visible set follows the
\* order of the 3x3 loops (dx outer, dy inner) and, within a cell, the
\* ascending entity index.
C21_GridOrder ==
    /\ pc \in {"perception", "utility"} =>
           /\ \A i \in Alive :
                  (/\ position_x[i] >= 0 /\ position_x[i] <= WorldUnits
                   /\ position_y[i] >= 0 /\ position_y[i] <= WorldUnits)
                      => Occurrences(i) = 1
           /\ \A c \in DOMAIN spatial_grid :
                  \A a, b \in 1 .. Len(spatial_grid[c]) :
                      a < b => spatial_grid[c][a] < spatial_grid[c][b]
    /\ pc = "utility" =>
           \A i \in Alive :
               LET seen == visible_entities[i]
               IN  \A a, b \in 1 .. Len(seen) :
                       a < b =>
                           LET ra == TraversalRank(i, seen[a])
                               rb == TraversalRank(i, seen[b])
                           IN  /\ ra > 0
                               /\ ra < rb \/ (ra = rb /\ seen[a] < seen[b])

\* C21 witness: an observer sees an entity of its own cell before one of
\* the next column that has the lower index, and a bucket holds two
\* entities.
C21_Witness ==
    /\ pc = "utility"
    /\ \E c \in DOMAIN spatial_grid : Len(spatial_grid[c]) >= 2
    /\ \E i \in Alive :
           /\ Len(visible_entities[i]) >= 2
           /\ visible_entities[i][1] > visible_entities[i][2]
           /\ TraversalRank(i, visible_entities[i][1])
                  < TraversalRank(i, visible_entities[i][2])

\* An iteration of UtilitySystem::Update that selects attack for a live
\* entity finds its visible set non-empty and makes the first element, a
\* live entity other than itself, its target_entity.
AttackFirstVisibleStep ==
    (pc = "utility" /\ is_alive[cursor] /\ current_action'[cursor] = "ATTACK") =>
        /\ visible_entities[cursor] # << >>
        /\ LET first == visible_entities[cursor][1]
           IN  /\ target_entity'[cursor] = first
               /\ first \in Entities \ {cursor}
               /\ is_alive[first]

\* C22: whenever UtilitySystem selects attack for a live entity A, the
\* visible set of A is not empty and target_entity of A becomes its first
\* element, which is alive and is not A; an entity with an empty visible
\* set never selects attack.
C22_AttackFirstVisible ==
    /\ [](\A i \in Alive :
              visible_entities[i] = << >> => Decision(i).best_action # "ATTACK")
    /\ [][AttackFirstVisibleStep]_vars

\* C22 witness: UtilitySystem has finished, one entity attacks the first
\* entity of its visible set and another, seeing nothing, does not attack.
C22_Witness ==
    /\ pc = "kinetic" /\ cursor = 0
    /\ \E a, b \in Alive :
           /\ current_action[a] = "ATTACK"
           /\ visible_entities[a] # << >>
           /\ target_entity[a] = visible_entities[a][1]
           /\ is_alive[target_entity[a]]
           /\ visible_entities[b] = << >>
           /\ current_action[b] # "ATTACK"

\* An iteration of NeedsSystem::Update on a live entity caps the grown
\* hunger at 1 and only then takes the eater's reduction from it; no other
\* system writes a hunger (the ChaosMonkey may).
HungerStep ==
    /\ (pc = "needs" /\ is_alive[cursor]) =>
           LET i == cursor
               grown == Min(NeedOne, hunger[i] + NeedRate(10))
           IN  /\ hunger'[i] = IF current_action[i] = "EAT"
                               THEN Max(0, grown - NeedRate(150))
                               ELSE grown
               /\ current_action[i] # "EAT" => hunger'[i] >= hunger[i]
               /\ \A j \in Entities \ {i} : hunger'[j] = hunger[j]
    /\ (pc = "needs" /\ ~is_alive[cursor]) => UNCHANGED hunger
    /\ pc \notin {"needs", "chaos"} => UNCHANGED hunger

\* C23: NeedsSystem takes the hunger h of a live entity to
\* min(1, h + 0.01 dt) when its action is not eat and to
\* max(0, min(1, h + 0.01 dt) - 0.15 dt) when it is, so the hunger of an
\* entity that does not eat never decreases in a frame.
C23_HungerUpdate == [][HungerStep]_vars

\* C23 witness: an eater whose hunger was capped at 1 before the reduction
\* ends the first NeedsSystem at 1 - 0.15 dt.
C23_Witness ==
    /\ pc = "chaos" /\ cursor = 0 /\ frame = 0
    /\ NeedRate(150) < NeedOne
    /\ \E i \in Alive :
           /\ current_action[i] = "EAT"
           /\ hunger[i] = NeedOne - NeedRate(150)

\* A step of main never changes the health, the armour, the view or the
\* number of the entities; only the ChaosMonkey changes an is_alive, and
\* only to false.
PopulationStep ==
    /\ UNCHANGED <<health, max_health, armor_type, view_range, view_angle, entity_count>>
    /\ pc # "chaos" => UNCHANGED is_alive
    /\ \A i \in Entities : is_alive'[i] => is_alive[i]

\* C24: PerceptionSystem, UtilitySystem, KineticSystem and NeedsSystem
\* change no is_alive, health, max_health, armor_type, view_range or
\* view_angle and never entity_count; the number of entities is constant
\* over main's loop, and an is_alive changes only in the ChaosMonkey, from
\* true to false.
C24_PopulationFixed == [][PopulationStep]_vars

\* C24 witness: the four systems of a frame have run over an entity the
\* ChaosMonkey killed in the frame before, and it is still dead with its
\* health as InitializeEntities left it.
C24_Witness ==
    /\ frame = 1 /\ pc = "chaos" /\ cursor = 0
    /\ chaos_count > 0
    /\ \E d \in Entities \ Alive :
           /\ health[d] = 100
           /\ visible_entities[d] = << >>
           /\ \E i \in Alive : hunger[i] = NeedOne

\* The actions and situations in which KineticSystem::Update takes no
\* branch that writes the velocity of entity i.
KeepsVelocity(i) ==
    LET a == current_action[i]
        dx == target_x[i] - position_x[i]
        dy == target_y[i] - position_y[i]
    IN  \/ a = "EAT"
        \/ a = "FLEE" /\ visible_entities[i] = << >>
        \/ /\ a \in {"MOVE_TO_TARGET", "ATTACK", "EXPLORE"}
           /\ dx * dx + dy * dy <= DeadZone * DeadZone

\* An iteration of KineticSystem::Update damps the velocity of a sleeping
\* or idle entity and of no other: an entity that eats, flees from nobody
\* or stands on its target keeps its velocity and its orientation and is
\* moved along that velocity, and one that seeks a target beyond the dead
\* zone is accelerated towards it (speeds compared below the clamp).
DriftStep ==
    (pc = "kinetic" /\ is_alive[cursor]) =>
        LET i == cursor
            v == <<velocity_x[i], velocity_y[i]>>
            w == <<velocity_x'[i], velocity_y'[i]>>
            slow == NormSq(v[1], v[2]) <= SpeedLimit * SpeedLimit
        IN  /\ KeepsVelocity(i) =>
                   /\ orientation'[i] = orientation[i]
                   /\ slow => w = v
                   /\ position_x'[i] = ClampWorld(Integrate(position_x[i], w[1]))
                   /\ position_y'[i] = ClampWorld(Integrate(position_y[i], w[2]))
            /\ current_action[i] \in {"SLEEP", "IDLE"} =>
                   /\ orientation'[i] = orientation[i]
                   /\ slow => w = <<RDiv(9 * v[1], 10), RDiv(9 * v[2], 10)>>
            /\ (/\ ~KeepsVelocity(i)
                /\ current_action[i] \in {"MOVE_TO_TARGET", "ATTACK", "EXPLORE"}
                /\ NormSq(w[1], w[2]) < (SpeedLimit - 1) * (SpeedLimit - 1)) =>
                   LET gain == RDiv(ACCELERATION * delta_time * VelOne, DtOne)
                       dx == target_x[i] - position_x[i]
                       dy == target_y[i] - position_y[i]
                   IN  /\ NormSq(w[1] - v[1], w[2] - v[2]) <= (2 * gain + 2) * (2 * gain + 2)
                       /\ gain >= 2 => (w[1] - v[1]) * dx + (w[2] - v[2]) * dy > 0

\* C25: KineticSystem multiplies the velocity by 0.9 exactly when the
\* action is sleep or idle; a live entity that eats, flees with an empty
\* visible set or seeks a target within the dead zone of 0.1 keeps its
\* velocity in the action-based movement, drifts on with it, and keeps its
\* orientation.
C25_DampingOnlyAtRest == [][DriftStep]_vars

\* C25 witness: an entity that was moving has eaten during KineticSystem
\* and left it with the same velocity, at another position.
C25_Witness ==
    /\ pc = "needs" /\ cursor = 0 /\ frame = 1
    /\ \E i \in Alive :
           /\ current_action[i] = "EAT"
           /\ <<velocity_x[i], velocity_y[i]>> # <<0, 0>>
           /\ NormSq(velocity_x[i], velocity_y[i]) <= SpeedLimit * SpeedLimit

\* An iteration of UtilitySystem::Update that selects another action than
\* attack leaves target_entity as it was; no other statement of main writes
\* a target_entity.
TargetEntityKeptStep ==
    /\ (pc = "utility" /\ current_action'[cursor] # "ATTACK") =>
           target_entity'[cursor] = target_entity[cursor]
    /\ pc = "utility" =>
           \A j \in Entities \ {cursor} : target_entity'[j] = target_entity[j]
    /\ pc # "utility" => UNCHANGED target_entity

\* C26: the action of every entity is always one of idle, eat, sleep, flee,
\* explore and attack: no system selects MOVE_TO_TARGET, so KineticSystem
\* never runs its branch for it; and UtilitySystem leaves target_entity
\* unchanged, not reset to none, when the action it selects is not attack.
C26_NoMoveToTarget ==
    /\ [](\A i \in Entities :
              current_action[i] \in {"IDLE", "EAT", "SLEEP", "FLEE", "EXPLORE", "ATTACK"})
    /\ [](pc = "kinetic" => current_action[cursor] # "MOVE_TO_TARGET")
    /\ [][TargetEntityKeptStep]_vars

\* C26 witness: in the second frame an entity that attacked in the first
\* has selected another action and still holds its target_entity.
C26_Witness ==
    /\ frame = 1 /\ pc = "kinetic" /\ cursor = 0
    /\ \E i \in Alive :
           /\ current_action[i] \in {"IDLE", "EAT", "SLEEP", "FLEE", "EXPLORE"}
           /\ target_entity[i] \in Entities

\* C27: after PerceptionSystem every member B of the visible set of a live
\* entity A is alive, is not A, occurs once, and lies within the view range
\* of A by the plain squared distance; so the modulo of the grid never makes
\* an entity at one edge of the world visible from the opposite edge.
C27_VisiblePlainDistance ==
    pc = "utility" =>
        \A a \in Alive :
            LET seen == visible_entities[a]
            IN  /\ \A k \in 1 .. Len(seen) :
                       LET b == seen[k]
                           dx == position_x[b] - position_x[a]
                           dy == position_y[b] - position_y[a]
                       IN  /\ b \in Alive \ {a}
                           /\ dx * dx + dy * dy <= view_range[a] * view_range[a]
                           /\ Abs(dx) <= view_range[a] /\ Abs(dy) <= view_range[a]
                /\ \A k, l \in 1 .. Len(seen) : k # l => seen[k] # seen[l]

\* C27 witness: an observer in the last row got an entity of the first row
\* as a candidate through the modulo, farther away than its view range, and
\* does not see it.
C27_Witness ==
    /\ pc = "utility"
    /\ \E a, b \in Alive :
           /\ IsCandidate(a, b)
           /\ position_y[a] - position_y[b] > view_range[a]
           /\ CellCoord(position_y[b]) = 0
           /\ ~InVisibleSet(a, b)

\* ------------------------------------------------------------------------
\* main's loop with the positions and velocities the entities have when
\* KineticSystem::Update is entered kept beside the state.
\* ------------------------------------------------------------------------
\* The positions and velocities of this frame's entry into KineticSystem
\* have been kept.
Recorded ==
    IF shuffle.phase = "kinetic" THEN shuffle.frame = frame ELSE FALSE

\* KineticSystem::Update is entered.
EnterKinetic ==
    /\ pc = "kinetic"
    /\ cursor = 0
    /\ ~Recorded
    /\ shuffle' = [phase |-> "kinetic", frame |-> frame,
                   before |-> <<position_x, position_y, velocity_x, velocity_y>>]
    /\ UNCHANGED <<transforms, perception, needs, actions, healths, spatial_grid,
                   visible_entities, control>>

\* One iteration of the loop of KineticSystem::Update after the entry.
KineticAfterEntry == Recorded /\ KineticStep

NextFlee ==
    \/ ValidateInitial
    \/ BuildSpatialPartition
    \/ PerceiveStep
    \/ DecideStep
    \/ EnterKinetic
    \/ KineticAfterEntry
    \/ NeedsStep
    \/ SkipChaos
    \/ Validate
    \/ LogFrame

SpecFlee == Init /\ [][NextFlee]_vars

\* The velocity the flee branch and the clamp give entity i when the threat
\* is read at the position from: i itself is at the position and velocity
\* it entered KineticSystem with.
FleeVelocity(i, from) ==
    LET dx == shuffle.before[1][i] - from[1]
        dy == shuffle.before[2][i] - from[2]
        d2 == dx * dx + dy * dy
        vx == shuffle.before[3][i]
        vy == shuffle.before[4][i]
    IN  IF d2 > DeadZone * DeadZone
        THEN ClampSpeed(vx + AccelerateFlee(dx, Sqrt(d2)), vy + AccelerateFlee(dy, Sqrt(d2)))
        ELSE ClampSpeed(vx, vy)

\* Where entity t stood when KineticSystem was entered, and where it
\* stands once its own iteration has integrated its velocity.
PositionBefore(t) == <<shuffle.before[1][t], shuffle.before[2][t]>>

PositionIntegrated(t) ==
    <<ClampWorld(Integrate(shuffle.before[1][t], velocity_x[t])),
      ClampWorld(Integrate(shuffle.before[2][t], velocity_y[t]))>>

\* The iteration of a fleeing entity i reads its first visible entity t
\* where t stands at that moment: moved already when t < i, not yet when
\* t > i.
FleeReadStep ==
    (/\ pc = "kinetic" /\ Recorded /\ is_alive[cursor]
     /\ current_action[cursor] = "FLEE" /\ visible_entities[cursor] # << >>) =>
        LET i == cursor
            t == visible_entities[i][1]
            read == IF t < i THEN PositionIntegrated(t) ELSE PositionBefore(t)
        IN  /\ t # i
            /\ <<position_x[t], position_y[t]>> = read
            /\ <<velocity_x'[i], velocity_y'[i]>> = FleeVelocity(i, read)

=============================================================================
